---- MODULE Spec2Model ----
(***************************************************************************)
(* Time Mission: Magma Mayhem -- the level layout generator, the hazard    *)
(* pattern library, the occupancy resolver and the player / progression    *)
(* state machine of src/game.js.                                           *)
(*                                                                         *)
(* Conventions                                                             *)
(*  - a grid cell is the pair <<x, z>>; the source keys its Sets with the  *)
(*    string `${x},${z}`, which is injective on integer pairs, so a set of *)
(*    keys is modelled as a set of pairs;                                  *)
(*  - times are integer milliseconds (Date.now());                         *)
(*  - Math.random() is the rational r / RES for an integer r in 0..RES-1,  *)
(*    so Math.floor(Math.random() * n) is (r * n) \div RES;                *)
(*  - a pattern's speed factor s is carried as the integer 100 * s.        *)
(***************************************************************************)
EXTENDS Integers, Sequences, FiniteSets, TLC

\* ------------------------------------------------------------------------
\* CONFIG (src/game.js:6-39) and the scoring fields of GameState (69-72)
\* ------------------------------------------------------------------------
WIDTH == 12
HEIGHT == 16
HOP_DURATION == 100
START_LIVES == 3
TOTAL == 12
POINTS_PER_LEVEL == <<6, 7, 7, 8, 8, 8, 9, 9, 9, 9, 10, 10>>
BASE_SPEED == 900
SPEED_DECREASE == 40
maxLevelScore == 10
gracePeriod == 10000
scoreDecayTime == 20000
INVINCIBLE_MS == 2500
SPAWN_ATTEMPTS == 300
SCATTER_ATTEMPTS == 50
LEVEL_COMPLETE_DELAY == 300

\* resolution of the modelled Math.random(): r / RES
RES == 100

Levels == 1..TOTAL
Spawn == <<6, 14>>
Grid == (0..(WIDTH - 1)) \X (0..(HEIGHT - 1))

Min(a, b) == IF a <= b THEN a ELSE b
Max(a, b) == IF a >= b THEN a ELSE b

\* Math.floor(Math.random() * n) for the raw draw r
RandInt(r, n) == (r * n) \div RES

\* The k-th draw of a random stream: a stream is a finite sequence of pairs
\* of raw draws; past its end the last pair repeats (an unlucky generator).
Draw(stream, k) == stream[Min(k, Len(stream))]

\* ------------------------------------------------------------------------
\* Safe islands
\* ------------------------------------------------------------------------
createCornerIslands ==
    { <<c[1] + dx, c[2] + dz>> :
        c \in {<<1, 1>>, <<10, 1>>, <<1, 10>>, <<10, 10>>},
        dx \in 0..1, dz \in 0..1 }
    \cap ((0..(WIDTH - 1)) \X (0..(HEIGHT - 3)))

createCenterCross ==
    LET centerX == WIDTH \div 2
        centerZ == (HEIGHT \div 2) - 1
    IN  { <<centerX + dx, centerZ>> : dx \in {d \in -2..2 : centerX + d >= 0 /\ centerX + d < WIDTH} }
        \cup
        { <<centerX, centerZ + dz>> : dz \in {d \in -2..2 : centerZ + d >= 0 /\ centerZ + d < HEIGHT - 2} }

createDiagonalIslands ==
    UNION { LET x == 2 + i * 3
                z == 2 + i * 2
            IN  IF x < WIDTH /\ z < HEIGHT - 2
                THEN {<<x, z>>} \cup (IF x + 1 < WIDTH THEN {<<x + 1, z>>} ELSE {})
                ELSE {}
          : i \in 0..3 }

setGreenPerimeter ==
    { <<x, 0>> : x \in 0..(WIDTH - 1) }
    \cup { <<x, HEIGHT - 3>> : x \in 0..(WIDTH - 1) }
    \cup { <<0, z>> : z \in 0..(HEIGHT - 3) }
    \cup { <<WIDTH - 1, z>> : z \in 0..(HEIGHT - 3) }

\* createStartingZone bounded to the playable rows, as the other generators are
createStartingZonePlayable ==
    { <<6 + dx, 14 + dz>> : dx \in -1..1, dz \in -1..1 }
    \cap ((0..(WIDTH - 1)) \X (0..(HEIGHT - 3)))

createStartingZone ==
    { <<6 + dx, 14 + dz>> : dx \in -1..1, dz \in -1..1 }
    \cap Grid

\* One island of createScatteredIslands: the do/while draws a cell until it
\* is not yet placed or SCATTER_ATTEMPTS draws were made.  Returns the cell
\* and the index of the next unused draw.
RECURSIVE ScatterPick(_, _, _, _)
ScatterPick(placed, stream, k, attempts) ==
    LET d == Draw(stream, k)
        x == 1 + RandInt(d[1], WIDTH - 2)
        z == 1 + RandInt(d[2], HEIGHT - 5)
    IN  IF <<x, z>> \in placed /\ attempts + 1 < SCATTER_ATTEMPTS
        THEN ScatterPick(placed, stream, k + 1, attempts + 1)
        ELSE [cell |-> <<x, z>>, next |-> k + 1]

RECURSIVE ScatterLoop(_, _, _, _, _)
ScatterLoop(count, i, placed, stream, k) ==
    IF i >= count THEN placed
    ELSE LET p == ScatterPick(placed, stream, k, 0)
         IN  ScatterLoop(count, i + 1, placed \cup {p.cell}, stream, p.next)

createScatteredIslands(count, stream) == ScatterLoop(count, 0, {}, stream, 1)

generateSafeIslands(level, stream) ==
    (CASE level \in {1, 2, 3} -> createCornerIslands \cup createCenterCross
       [] level = 4          -> setGreenPerimeter
       [] level \in {5, 6}   -> createDiagonalIslands \cup createCornerIslands
       [] level = 7          -> createScatteredIslands(6, stream)
       [] level = 8          -> createCornerIslands
       [] level = 9          -> createDiagonalIslands \cup createScatteredIslands(4, stream)
       [] level = 10         -> createScatteredIslands(5, stream)
       [] level = 11         -> createCornerIslands \cup createScatteredIslands(3, stream)
       [] level = 12         -> createCornerIslands
       [] OTHER              -> createCornerIslands \cup createCenterCross)
    \cup createStartingZone

\* ------------------------------------------------------------------------
\* Collectibles
\* ------------------------------------------------------------------------
\* The spawn exclusion box of spawnCollectibles
InSpawnBox(x, z) == x >= 5 /\ x <= 7 /\ z >= 13 /\ z <= 15

\* SpawnAccepts without the safe-island test
SpawnAcceptsOnIslands(safe, coll, x, z) ==
    <<x, z>> \notin coll /\ ~InSpawnBox(x, z)

SpawnAccepts(safe, coll, x, z) ==
    <<x, z>> \notin safe /\ <<x, z>> \notin coll /\ ~InSpawnBox(x, z)

\* The while loop of spawnCollectibles.  Past the end of the stream every
\* draw repeats the last pair, which the loop has already placed or refused,
\* so the attempts that remain change nothing and are not unrolled.
RECURSIVE SpawnLoop(_, _, _, _, _)
SpawnLoop(numCollectibles, safe, coll, stream, attempts) ==
    IF /\ Cardinality(coll) < numCollectibles
       /\ attempts < SPAWN_ATTEMPTS
       /\ attempts < Len(stream)
    THEN LET d == Draw(stream, attempts + 1)
             x == RandInt(d[1], WIDTH)
             z == RandInt(d[2], HEIGHT - 3)
         IN  SpawnLoop(numCollectibles, safe,
                       IF SpawnAccepts(safe, coll, x, z) THEN coll \cup {<<x, z>>} ELSE coll,
                       stream, attempts + 1)
    ELSE coll

spawnCollectibles(level, safe, stream) ==
    SpawnLoop(POINTS_PER_LEVEL[level], safe, {}, stream, 0)

\* ------------------------------------------------------------------------
\* Hazard pattern constructors (generateLavaPatterns and its helpers)
\* ------------------------------------------------------------------------
addStandardRedFloor(speed) ==
    [type |-> "checkerboard_pulse", phase |-> 0, speed |-> speed, interval |-> 1500]

addPulsingGrayTiles(interval) ==
    [type |-> "gray_pulse", interval |-> interval, phase |-> 0]

addDiagonalSweep(direction, speed) ==
    [type |-> "diagonal_sweep", direction |-> direction, width |-> 2, speed |-> speed, offset |-> 0]

addRowMarch(speed) ==
    [type |-> "row_march", currentRow |-> 0, speed |-> speed, width |-> 2]

addColumnMarch(speed) ==
    [type |-> "column_march", currentCol |-> 0, speed |-> speed, width |-> 2]

addRotatingCross(speed) ==
    [type |-> "rotating_cross", angle |-> 0, speed |-> speed, armLength |-> 5]

addSpiralPattern(speed) ==
    [type |-> "spiral", progress |-> 0, speed |-> speed, direction |-> 1]

\* addRollingX without its loop: one pattern whatever the count
addRollingXOnce(count, speed, spacing) ==
    << [type |-> "rolling_x", offset |-> 0, speed |-> speed, size |-> 3] >>

\* addRollingX pushes `count` patterns, the i-th with offset i * spacing
addRollingX(count, speed, spacing) ==
    [i \in 1..count |->
        [type |-> "rolling_x", offset |-> (i - 1) * spacing, speed |-> speed, size |-> 3]]

\* offset: Math.random() * WIDTH, kept as the raw draw r (offset = r * WIDTH / RES)
addHorizontalBar(row, width, direction, speed, r) ==
    [type |-> "horizontal", row |-> Min(row, HEIGHT - 4), width |-> width,
     direction |-> direction, offset |-> r, speed |-> speed]

\* offset: Math.random() * HEIGHT, kept as the raw draw r (offset = r * HEIGHT / RES)
addVerticalBar(col, height, direction, speed, r) ==
    [type |-> "vertical", col |-> Min(col, WIDTH - 1), height |-> height,
     direction |-> direction, offset |-> r, speed |-> speed]

\* amplitude 2.5 and frequency 0.4 are carried as 25 / 10 and 4 / 10
addWavePattern(speed) ==
    [type |-> "wave", amplitude |-> 25, frequency |-> 4, width |-> 2, offset |-> 0, speed |-> speed]

addExpandingRing(speed) ==
    [type |-> "ring", centerX |-> WIDTH \div 2, centerZ |-> (HEIGHT \div 2) - 2,
     maxRadius |-> 6, speed |-> speed]

\* speed here is the snake's move period in ms
addSnakePattern(length, moveSpeed) ==
    [type |-> "snake", positions |-> <<>>, headX |-> WIDTH \div 2, headZ |-> HEIGHT \div 2,
     direction |-> 0, length |-> length, lastMoveTime |-> 0, speed |-> moveSpeed]

\* positions: x = floor(random * WIDTH), z = floor(random * (HEIGHT - 4)),
\* phase = random * 2 pi, kept in milliradians
addBlinkingTiles(count, interval, stream) ==
    [type |-> "blinker",
     positions |-> [i \in 1..count |->
                      [x |-> RandInt(Draw(stream, i)[1], WIDTH),
                       z |-> RandInt(Draw(stream, i)[2], HEIGHT - 4),
                       phase |-> (Draw(stream, i)[1] * 6283) \div RES]],
     interval |-> interval]

\* The per-level script.  stream supplies the bars' random offsets, one draw
\* per bar in the order the script adds them.
generateLavaPatterns(level, stream) ==
    LET r(k) == Draw(stream, k)[1]
    IN  CASE level = 1 -> << addHorizontalBar(4, 3, 1, 50, r(1)),
                             addHorizontalBar(9, 3, -1, 50, r(2)) >>
          [] level = 2 -> << addHorizontalBar(3, 3, 1, 60, r(1)),
                             addHorizontalBar(10, 3, -1, 60, r(2)),
                             addVerticalBar(5, 3, 1, 50, r(3)) >>
          [] level = 3 -> << addHorizontalBar(3, 4, 1, 70, r(1)),
                             addHorizontalBar(8, 4, -1, 70, r(2)),
                             addVerticalBar(3, 4, 1, 60, r(3)),
                             addVerticalBar(8, 4, -1, 60, r(4)) >>
          [] level = 4 -> addRollingX(3, 60, 6)
          [] level = 5 -> << addRowMarch(80), addHorizontalBar(5, 3, 1, 80, r(1)) >>
          [] level = 6 -> << addRowMarch(90), addColumnMarch(70) >>
          [] level = 7 -> << addPulsingGrayTiles(2400) >>
          [] level = 8 -> << addRotatingCross(30),
                             addHorizontalBar(2, 2, 1, 70, r(1)),
                             addHorizontalBar(10, 2, -1, 70, r(2)) >>
          [] level = 9 -> << addSpiralPattern(40),
                             addVerticalBar(4, 2, 1, 70, r(1)),
                             addVerticalBar(7, 2, -1, 70, r(2)) >>
          [] level = 10 -> << addPulsingGrayTiles(1600),
                              addHorizontalBar(3, 2, 1, 70, r(1)),
                              addHorizontalBar(9, 2, -1, 70, r(2)) >>
          [] level = 11 -> << addRowMarch(70), addColumnMarch(50),
                              addHorizontalBar(5, 2, 1, 80, r(1)) >>
          [] level = 12 -> << addRotatingCross(35), addDiagonalSweep(1, 60),
                              addHorizontalBar(2, 2, 1, 80, r(1)),
                              addHorizontalBar(10, 2, -1, 80, r(2)),
                              addVerticalBar(3, 2, 1, 70, r(3)),
                              addVerticalBar(8, 2, -1, 70, r(4)) >>
          [] OTHER -> << >>

\* ------------------------------------------------------------------------
\* Fixed-point trigonometry: sin and cos in thousandths, the angle taken
\* down to a multiple of 15 degrees.
\* ------------------------------------------------------------------------
SinTable == << 0, 259, 500, 707, 866, 966, 1000, 966, 866, 707, 500, 259,
               0, -259, -500, -707, -866, -966, -1000, -966, -866, -707, -500, -259 >>

SinDeg(deg) == SinTable[((deg % 360) \div 15) + 1]
CosDeg(deg) == SinDeg(deg + 90)

\* milliradians to degrees (180 / pi = 57.3)
MradToDeg(mrad) == (mrad * 573) \div 10000

\* Math.round of v / den (round half up)
RoundDiv(v, den) == (2 * v + den) \div (2 * den)

\* InPlayable without the test
InPlayableAnywhere(x, z) == TRUE

InPlayable(x, z) == x >= 0 /\ x < WIDTH /\ z >= 0 /\ z < HEIGHT - 2

baseSpeedOf(level) == BASE_SPEED - (level - 1) * SPEED_DECREASE

\* floor((time / baseSpeed) * speed + r * span / RES), all arguments >= 0
BarPos(pattern, time, baseSpeed, span) ==
    (time * pattern.speed * RES + pattern.offset * span * 100 * baseSpeed)
        \div (100 * baseSpeed * RES)

\* ------------------------------------------------------------------------
\* Hazard pattern evaluators: the cells each update*Pattern adds to
\* GameState.lavaTiles.
\* ------------------------------------------------------------------------
\* a bar that leaves the grid on one side before it comes back on the other
updateHorizontalPatternClipped(pattern, time, baseSpeed) ==
    LET currentPos == BarPos(pattern, time, baseSpeed, WIDTH) % (WIDTH + pattern.width)
        xOf(i) == IF pattern.direction > 0
                  THEN currentPos + i
                  ELSE WIDTH - 1 - (currentPos + i)
    IN  { <<xOf(i), pattern.row>> :
            i \in { j \in 0..(pattern.width - 1) : xOf(j) >= 0 /\ xOf(j) < WIDTH } }

updateHorizontalPattern(pattern, time, baseSpeed) ==
    LET currentPos == BarPos(pattern, time, baseSpeed, WIDTH) % (WIDTH + pattern.width)
        xOf(i) == IF pattern.direction > 0
                  THEN (currentPos + i) % WIDTH
                  ELSE WIDTH - 1 - ((currentPos + i) % WIDTH)
    IN  { <<xOf(i), pattern.row>> :
            i \in { j \in 0..(pattern.width - 1) : xOf(j) >= 0 /\ xOf(j) < WIDTH } }

updateVerticalPattern(pattern, time, baseSpeed) ==
    LET currentPos == BarPos(pattern, time, baseSpeed, HEIGHT) % (HEIGHT + pattern.height)
        zOf(i) == IF pattern.direction > 0
                  THEN (currentPos + i) % (HEIGHT - 2)
                  ELSE (HEIGHT - 3) - ((currentPos + i) % (HEIGHT - 2))
    IN  { <<pattern.col, zOf(i)>> :
            i \in { j \in 0..(pattern.height - 1) : zOf(j) >= 0 /\ zOf(j) < HEIGHT - 2 } }

\* z = floor((HEIGHT / 2 - 2) + sin(x * frequency + progress) * amplitude)
updateWavePattern(pattern, time, baseSpeed) ==
    LET progressMrad == (time * pattern.speed * 10) \div baseSpeed
        zOf(x) == (((HEIGHT \div 2) - 2) * 10000
                   + SinDeg(MradToDeg(x * pattern.frequency * 100 + progressMrad)) * pattern.amplitude)
                  \div 10000
    IN  { c \in { <<x, zOf(x) + w>> : x \in 0..(WIDTH - 1), w \in 0..(pattern.width - 1) } :
            c[2] >= 0 /\ c[2] < HEIGHT - 2 }

\* the ring outline is sampled every 0.15 rad for angle < 2 pi
updateRingPattern(pattern, time) ==
    LET radius1000 == ((time * pattern.speed) \div 200) % (pattern.maxRadius * 1000)
        xOf(j) == RoundDiv(pattern.centerX * 1000000 + CosDeg(MradToDeg(150 * j)) * radius1000, 1000000)
        zOf(j) == RoundDiv(pattern.centerZ * 1000000 + SinDeg(MradToDeg(150 * j)) * radius1000, 1000000)
    IN  { <<xOf(j), zOf(j)>> : j \in { k \in 0..41 : InPlayable(xOf(k), zOf(k)) } }

\* The snake moves when more than `speed` ms passed since its last move.
\* turn: Math.random() < 0.15; side: Math.random() > 0.5.
Dirs == << <<1, 0>>, <<0, 1>>, <<-1, 0>>, <<0, -1>> >>

\* SnakeMove that moves at every evaluation
SnakeMoveAlways(pattern, time, turn, side) ==
    LET d1 == IF turn THEN (pattern.direction + (IF side THEN 1 ELSE 3)) % 4
              ELSE pattern.direction
        rawX == pattern.headX + Dirs[d1 + 1][1]
        rawZ == pattern.headZ + Dirs[d1 + 1][2]
        bounceX == rawX < 0 \/ rawX >= WIDTH
        d2 == IF bounceX THEN (d1 + 2) % 4 ELSE d1
        newX == IF bounceX THEN pattern.headX ELSE rawX
        bounceZ == rawZ < 0 \/ rawZ >= HEIGHT - 2
        d3 == IF bounceZ THEN (d2 + 2) % 4 ELSE d2
        newZ == IF bounceZ THEN pattern.headZ ELSE rawZ
        grown == <<[x |-> newX, z |-> newZ]>> \o pattern.positions
    IN  [pattern EXCEPT !.lastMoveTime = time,
                        !.direction = d3,
                        !.headX = newX,
                        !.headZ = newZ,
                        !.positions = SubSeq(grown, 1, Min(Len(grown), pattern.length))]

SnakeMove(pattern, time, turn, side) ==
    IF time - pattern.lastMoveTime > pattern.speed
    THEN LET d1 == IF turn THEN (pattern.direction + (IF side THEN 1 ELSE 3)) % 4
                   ELSE pattern.direction
             rawX == pattern.headX + Dirs[d1 + 1][1]
             rawZ == pattern.headZ + Dirs[d1 + 1][2]
             bounceX == rawX < 0 \/ rawX >= WIDTH
             d2 == IF bounceX THEN (d1 + 2) % 4 ELSE d1
             newX == IF bounceX THEN pattern.headX ELSE rawX
             bounceZ == rawZ < 0 \/ rawZ >= HEIGHT - 2
             d3 == IF bounceZ THEN (d2 + 2) % 4 ELSE d2
             newZ == IF bounceZ THEN pattern.headZ ELSE rawZ
             grown == <<[x |-> newX, z |-> newZ]>> \o pattern.positions
         IN  [pattern EXCEPT !.lastMoveTime = time,
                             !.direction = d3,
                             !.headX = newX,
                             !.headZ = newZ,
                             !.positions = SubSeq(grown, 1, Min(Len(grown), pattern.length))]
    ELSE pattern

SnakeCells(pattern) ==
    { <<pattern.positions[i].x, pattern.positions[i].z>> :
        i \in { k \in 1..Len(pattern.positions) : pattern.positions[k].z < HEIGHT - 2 } }

\* blinkValue = sin(time / interval + phase) > 0.3
updateBlinkerPattern(pattern, time) ==
    { <<pattern.positions[i].x, pattern.positions[i].z>> :
        i \in { k \in 1..Len(pattern.positions) :
                  /\ pattern.positions[k].z < HEIGHT - 2
                  /\ SinDeg(MradToDeg((time * 1000) \div pattern.interval
                                      + pattern.positions[k].phase)) > 300 } }

updateDiagonalSweep(pattern, time, baseSpeed) ==
    LET totalDiagonals == WIDTH + HEIGHT
        currentDiag == ((time * pattern.speed) \div (100 * baseSpeed)) % totalDiagonals
        diagIndex(w) == (currentDiag + w) % totalDiagonals
        xOf(i) == IF pattern.direction > 0 THEN i ELSE WIDTH - 1 - i
    IN  UNION { { <<xOf(i), diagIndex(w) - i>> :
                    i \in { k \in 0..diagIndex(w) : InPlayable(xOf(k), diagIndex(w) - k) } }
              : w \in 0..(pattern.width - 1) }

\* progress = (time / (baseSpeed * 1.5)) * speed
updateRowMarch(pattern, time, baseSpeed) ==
    LET currentRow == ((time * pattern.speed) \div (150 * baseSpeed)) % (HEIGHT - 2)
    IN  { <<x, (currentRow + w) % (HEIGHT - 2)>> :
            x \in 0..(WIDTH - 1), w \in 0..(pattern.width - 1) }

\* progress = (time / (baseSpeed * 1.2)) * speed
updateColumnMarch(pattern, time, baseSpeed) ==
    LET currentCol == ((time * pattern.speed) \div (120 * baseSpeed)) % WIDTH
    IN  { <<(currentCol + w) % WIDTH, z>> :
            w \in 0..(pattern.width - 1), z \in 0..(HEIGHT - 3) }

\* angle = (time / 3000) * speed * 2 pi, i.e. time * speed * 360 / 300000 degrees
updateRotatingCross(pattern, time) ==
    LET centerX == WIDTH \div 2
        centerZ == (HEIGHT - 2) \div 2
        deg == (time * pattern.speed * 6) \div 5000
        x1(i) == RoundDiv(centerX * 1000 + CosDeg(deg) * i, 1000)
        z1(i) == RoundDiv(centerZ * 1000 + SinDeg(deg) * i, 1000)
        x2(i) == RoundDiv(centerX * 1000 + CosDeg(deg + 90) * i, 1000)
        z2(i) == RoundDiv(centerZ * 1000 + SinDeg(deg + 90) * i, 1000)
        arm == (-pattern.armLength)..pattern.armLength
    IN  { <<x1(i), z1(i)>> : i \in { k \in arm : InPlayable(x1(k), z1(k)) } }
        \cup
        { <<x2(i), z2(i)>> : i \in { k \in arm : InPlayable(x2(k), z2(k)) } }

\* 20 samples t = 0..19: angle = progress + t * 0.3, radius = t * 0.4,
\* progress = (time / 2000) * speed
updateSpiralPattern(pattern, time) ==
    LET centerX == WIDTH \div 2
        centerZ == (HEIGHT - 2) \div 2
        progressMrad == (time * pattern.speed) \div 200
        deg(t) == MradToDeg(progressMrad + t * 300)
        xOf(t) == RoundDiv(centerX * 10000 + CosDeg(deg(t)) * t * 4, 10000)
        zOf(t) == RoundDiv(centerZ * 10000 + SinDeg(deg(t)) * t * 4, 10000)
    IN  { <<xOf(t), zOf(t)>> : t \in { k \in 0..19 : InPlayable(xOf(k), zOf(k)) } }

updateRollingX(pattern, time, baseSpeed) ==
    LET totalHeight == HEIGHT + pattern.size * 2
        \* Math.floor(currentZ + i) = floor(progress + offset) % totalHeight - size + i
        floorZ == ((((time * pattern.speed) \div (100 * baseSpeed)) + pattern.offset) % totalHeight)
                  - pattern.size
        centerX == WIDTH \div 2
        span == (-pattern.size)..pattern.size
    IN  { <<centerX + i, floorZ + i>> : i \in { k \in span : InPlayable(centerX + k, floorZ + k) } }
        \cup
        { <<centerX - i, floorZ + i>> : i \in { k \in span : InPlayable(centerX - k, floorZ + k) } }

\* pulseOn = sin(time / interval * pi) > 0: the pulse is on in the first half
\* of every 2 * interval period.  At an exact odd multiple of interval the
\* floating-point sine of pi is a tiny positive number, so the pulse is on.
PulseOn(pattern, time) ==
    LET ph == time % (2 * pattern.interval)
    IN  ph > 0 /\ ph <= pattern.interval

\* updateGrayPulse without the test that spares the collectibles
updateGrayPulseOverCollectibles(pattern, time, safeIslands, collectibleTiles) ==
    IF PulseOn(pattern, time)
    THEN { c \in (0..(WIDTH - 1)) \X (0..(HEIGHT - 3)) : c \notin safeIslands }
    ELSE {}

updateGrayPulse(pattern, time, safeIslands, collectibleTiles) ==
    IF PulseOn(pattern, time)
    THEN { c \in (0..(WIDTH - 1)) \X (0..(HEIGHT - 3)) :
             c \notin safeIslands /\ c \notin collectibleTiles }
    ELSE {}

\* updateCheckerboardPulse with the two phases exchanged
updateCheckerboardPulseInverted(pattern, time, safeIslands, collectibleTiles) ==
    LET phase == ((time \div pattern.interval) + 1) % 2
    IN  { c \in (0..(WIDTH - 1)) \X (0..(HEIGHT - 3)) :
            /\ (c[1] + c[2]) % 2 = phase
            /\ c \notin safeIslands /\ c \notin collectibleTiles }

updateCheckerboardPulse(pattern, time, safeIslands, collectibleTiles) ==
    LET phase == (time \div pattern.interval) % 2
    IN  { c \in (0..(WIDTH - 1)) \X (0..(HEIGHT - 3)) :
            /\ (c[1] + c[2]) % 2 = phase
            /\ c \notin safeIslands /\ c \notin collectibleTiles }

\* ------------------------------------------------------------------------
\* State
\* ------------------------------------------------------------------------
VARIABLES
    GameState,       \* the GameState object (the fields the logic reads)
    screens,         \* which overlays are shown (no 'hidden' class)
    isStartingGame,  \* the double-start guard of startGame
    tasks,           \* suspended async activations of startGame / nextLevel
    timers,          \* deadlines of pending setTimeout(levelComplete, 300)
    now,             \* Date.now()
    frame,           \* position inside the running animate() callback
    pausedMs,        \* history: ms that elapsed while paused since level start
    hops,            \* history: accepted moves since level start
    data,            \* leaderboard server: the contents of leaderboard.json
    response,        \* leaderboard server: the response to the last request
    accepted         \* history: the entries the server has stored so far

vars == <<GameState, screens, isStartingGame, tasks, timers, now, frame, pausedMs, hops,
          data, response, accepted>>

\* the leaderboard server's part of the state
server == <<data, response, accepted>>

\* The part of the state the game functions read and write.
World == [gs |-> GameState, scr |-> screens, tm |-> timers]

\* ------------------------------------------------------------------------
\* Occupancy resolver and collision
\* ------------------------------------------------------------------------
gameOver(w) ==
    [w EXCEPT !.gs.isPlaying = FALSE,
              !.gs.isGameOver = TRUE,
              !.scr.gameOver = TRUE]

respawnPlayer(w, t) ==
    [w EXCEPT !.gs.playerPosition = Spawn,
              !.gs.isHopping = FALSE,
              !.gs.invincible = TRUE,
              !.gs.invincibleUntil = t + INVINCIBLE_MS]

\* playerHit taking two lives
playerHitTwoLives(w, t) ==
    IF w.gs.invincible THEN w
    ELSE LET w1 == [w EXCEPT !.gs.livesRemaining = @ - 2]
         IN  IF w1.gs.livesRemaining <= 0 THEN gameOver(w1) ELSE respawnPlayer(w1, t)

\* playerHit ending the game one life early
playerHitEarlyOver(w, t) ==
    IF w.gs.invincible THEN w
    ELSE LET w1 == [w EXCEPT !.gs.livesRemaining = @ - 1]
         IN  IF w1.gs.livesRemaining <= 1 THEN gameOver(w1) ELSE respawnPlayer(w1, t)

playerHit(w, t) ==
    IF w.gs.invincible THEN w
    ELSE LET w1 == [w EXCEPT !.gs.livesRemaining = @ - 1]
         IN  IF w1.gs.livesRemaining <= 0 THEN gameOver(w1) ELSE respawnPlayer(w1, t)

\* checkLavaCollision without its first early return
checkLavaCollisionUngated(w, t) ==
    IF w.gs.playerPosition \in w.gs.safeIslands THEN w
    ELSE IF w.gs.playerPosition \in w.gs.lavaTiles
         THEN LET w1 == [w EXCEPT !.gs.livesRemaining = @ - 1]
              IN  IF w1.gs.livesRemaining <= 0 THEN gameOver(w1) ELSE respawnPlayer(w1, t)
    ELSE w

\* checkLavaCollision without its safe-island early return
checkLavaCollisionNoIslands(w, t) ==
    IF w.gs.isHopping \/ w.gs.invincible \/ w.gs.isCountingDown THEN w
    ELSE IF w.gs.playerPosition \in w.gs.lavaTiles THEN playerHit(w, t)
    ELSE w

checkLavaCollision(w, t) ==
    IF w.gs.isHopping \/ w.gs.invincible \/ w.gs.isCountingDown THEN w
    ELSE IF w.gs.playerPosition \in w.gs.safeIslands THEN w
    ELSE IF w.gs.playerPosition \in w.gs.lavaTiles THEN playerHit(w, t)
    ELSE w

\* The cells one stateless pattern adds at `time`
PatternCells(pattern, time, baseSpeed, safeIslands, collectibleTiles) ==
    CASE pattern.type = "horizontal"     -> updateHorizontalPattern(pattern, time, baseSpeed)
      [] pattern.type = "vertical"       -> updateVerticalPattern(pattern, time, baseSpeed)
      [] pattern.type = "wave"           -> updateWavePattern(pattern, time, baseSpeed)
      [] pattern.type = "ring"           -> updateRingPattern(pattern, time)
      [] pattern.type = "snake"          -> SnakeCells(pattern)
      [] pattern.type = "blinker"        -> updateBlinkerPattern(pattern, time)
      [] pattern.type = "diagonal_sweep" -> updateDiagonalSweep(pattern, time, baseSpeed)
      [] pattern.type = "row_march"      -> updateRowMarch(pattern, time, baseSpeed)
      [] pattern.type = "column_march"   -> updateColumnMarch(pattern, time, baseSpeed)
      [] pattern.type = "rotating_cross" -> updateRotatingCross(pattern, time)
      [] pattern.type = "spiral"         -> updateSpiralPattern(pattern, time)
      [] pattern.type = "gray_pulse"     -> updateGrayPulse(pattern, time, safeIslands, collectibleTiles)
      [] pattern.type = "checkerboard_pulse" ->
             updateCheckerboardPulse(pattern, time, safeIslands, collectibleTiles)
      [] pattern.type = "rolling_x"      -> updateRollingX(pattern, time, baseSpeed)
      [] OTHER -> {}

\* updateSnakePattern: move (when due), then add the body cells
updateSnakePattern(pattern, time, turn, side) == SnakeMove(pattern, time, turn, side)

\* The pattern list after this tick (only a snake carries state)
StepPatterns(patterns, time, turn, side) ==
    [i \in 1..Len(patterns) |->
        IF patterns[i].type = "snake"
        THEN updateSnakePattern(patterns[i], time, turn, side)
        ELSE patterns[i]]

\* updateLavaPatterns: clear lavaTiles, evaluate every active pattern into
\* it, then run the per-tick collision check.  The tile colouring loops only
\* touch the display.
\* ResolveOccupancy that adds to lavaTiles without clearing it first
ResolveOccupancyNoClear(gs, time, turn, side) ==
    LET baseSpeed == baseSpeedOf(gs.currentLevel)
        stepped == StepPatterns(gs.lavaPatterns, time, turn, side)
    IN  [gs EXCEPT !.lavaPatterns = stepped,
                   !.lavaTiles = @ \cup UNION { PatternCells(stepped[i], time, baseSpeed,
                                                            gs.safeIslands, gs.collectibleTiles)
                                               : i \in 1..Len(stepped) }]

ResolveOccupancy(gs, time, turn, side) ==
    LET baseSpeed == baseSpeedOf(gs.currentLevel)
        stepped == StepPatterns(gs.lavaPatterns, time, turn, side)
    IN  [gs EXCEPT !.lavaPatterns = stepped,
                   !.lavaTiles = UNION { PatternCells(stepped[i], time, baseSpeed,
                                                      gs.safeIslands, gs.collectibleTiles)
                                         : i \in 1..Len(stepped) }]

updateLavaPatterns(w, time, turn, side) ==
    checkLavaCollision([w EXCEPT !.gs = ResolveOccupancy(w.gs, time, turn, side)], time)

\* ------------------------------------------------------------------------
\* Player movement, pickup, score
\* ------------------------------------------------------------------------
\* MoveBlocked that looks at the hop in progress only
MoveBlockedHopOnly(gs) == gs.isHopping

MoveBlocked(gs) ==
    gs.isHopping \/ gs.isPaused \/ ~gs.isPlaying \/ gs.isCountingDown

\* the bounds test off by one at the far edges
OutOfGridOffByOne(x, z) == x < 0 \/ x > WIDTH \/ z < 0 \/ z > HEIGHT

OutOfGrid(x, z) == x < 0 \/ x >= WIDTH \/ z < 0 \/ z >= HEIGHT

\* movePlayer that picks the collectible up when the hop starts
movePlayerCollects(gs, dx, dz, t) ==
    IF MoveBlocked(gs) THEN gs
    ELSE LET newX == gs.playerPosition[1] + dx
             newZ == gs.playerPosition[2] + dz
         IN  IF OutOfGrid(newX, newZ) THEN gs
             ELSE [gs EXCEPT !.isHopping = TRUE,
                             !.hopStartTime = t,
                             !.playerPosition = <<newX, newZ>>,
                             !.collectibleTiles = @ \ {<<newX, newZ>>}]

\* movePlayer without the bounds check
movePlayerUnbounded(gs, dx, dz, t) ==
    IF MoveBlocked(gs) THEN gs
    ELSE [gs EXCEPT !.isHopping = TRUE,
                    !.hopStartTime = t,
                    !.playerPosition = <<@[1] + dx, @[2] + dz>>]

movePlayer(gs, dx, dz, t) ==
    IF MoveBlocked(gs) THEN gs
    ELSE LET newX == gs.playerPosition[1] + dx
             newZ == gs.playerPosition[2] + dz
         IN  IF OutOfGrid(newX, newZ) THEN gs
             ELSE [gs EXCEPT !.isHopping = TRUE,
                             !.hopStartTime = t,
                             !.playerPosition = <<newX, newZ>>]

collectItem(w, cell, t) ==
    IF cell \in w.gs.collectibleTiles
    THEN LET w1 == [w EXCEPT !.gs.collectibleTiles = @ \ {cell}]
         IN  IF Cardinality(w1.gs.collectibleTiles) = 0
             THEN [w1 EXCEPT !.gs.totalScore = @ + Max(1, w1.gs.currentLevelScore),
                             !.tm = Append(@, t + LEVEL_COMPLETE_DELAY)]
             ELSE w1
    ELSE w

\* Score as a function of the time elapsed since the level started:
\* Math.round(max * (1 - min(decayElapsed / decayTime, 1))), then max(1, .)
\* ScoreAt without the floor of 1
ScoreAtNoFloor(elapsed) ==
    IF elapsed <= gracePeriod THEN maxLevelScore
    ELSE RoundDiv(maxLevelScore * (scoreDecayTime - Min(elapsed - gracePeriod, scoreDecayTime)),
                  scoreDecayTime)

ScoreAt(elapsed) ==
    IF elapsed <= gracePeriod THEN maxLevelScore
    ELSE LET decayElapsed == elapsed - gracePeriod
             capped == Min(decayElapsed, scoreDecayTime)
         IN  Max(1, RoundDiv(maxLevelScore * (scoreDecayTime - capped), scoreDecayTime))

updateTimeBasedScore(gs, t) ==
    IF ~gs.isPlaying \/ gs.isPaused THEN gs
    ELSE [gs EXCEPT !.currentLevelScore = ScoreAt(t - gs.levelStartTime)]

\* The hop part of updateHopAnimation up to and including collectItem; the
\* landing collision check that follows it is LandingCheck.
HopLands(gs, t) == gs.isHopping /\ t - gs.hopStartTime >= HOP_DURATION

\* updateHopAnimation with the collision check ahead of the pickup
updateHopAnimationCheckFirst(w, t) ==
    IF HopLands(w.gs, t)
    THEN LET w1 == checkLavaCollision([w EXCEPT !.gs.isHopping = FALSE], t)
         IN  collectItem(w1, w1.gs.playerPosition, t)
    ELSE w

updateHopAnimation(w, t) ==
    IF HopLands(w.gs, t)
    THEN collectItem([w EXCEPT !.gs.isHopping = FALSE], w.gs.playerPosition, t)
    ELSE w

LandingCheck(w, t) == checkLavaCollision(w, t)

\* ------------------------------------------------------------------------
\* Progression
\* ------------------------------------------------------------------------
\* rnd: the random source of this level start, three streams
initializeLevel(gs, t, rnd) ==
    LET safe == generateSafeIslands(gs.currentLevel, rnd.islands)
    IN  [gs EXCEPT !.safeIslands = safe,
                   !.collectibleTiles = spawnCollectibles(gs.currentLevel, safe, rnd.collect),
                   !.lavaPatterns = generateLavaPatterns(gs.currentLevel, rnd.offsets),
                   !.levelStartTime = t,
                   !.currentLevelScore = maxLevelScore,
                   !.playerPosition = Spawn,
                   !.isPlaying = TRUE]

\* levelComplete without the test for the last level
levelCompleteAlwaysNext(w) ==
    [w EXCEPT !.gs.isPlaying = FALSE, !.scr.levelComplete = TRUE]

levelComplete(w) ==
    LET w1 == [w EXCEPT !.gs.isPlaying = FALSE]
    IN  IF w1.gs.currentLevel >= TOTAL
        THEN [w1 EXCEPT !.scr.win = TRUE]
        ELSE [w1 EXCEPT !.scr.levelComplete = TRUE]

togglePause(gs) ==
    IF ~gs.isPlaying \/ gs.isCountingDown THEN gs
    ELSE [gs EXCEPT !.isPaused = ~@]

\* ------------------------------------------------------------------------
\* Model bounds and inputs
\* ------------------------------------------------------------------------
\* how far (Manhattan distance from the spawn cell) the player tries to go
MaxReach == 2
\* the levels that are played for long: there the player makes up to MaxHops
\* hops, stands still for up to LongWindow ms in all, and pauses; on the
\* other levels the player makes up to ShortHops hops
LongLevels == {10}
MaxHops == 6
ShortHops == 3
LongWindow == 6000
HopBudget(level) == IF level \in LongLevels THEN MaxHops ELSE ShortHops
\* how long the player stands still at a time
StandSteps == {2600}
\* a break taken while paused, and the most paused time per level
PauseStep == 12000
MaxPausedMs == 12000
\* the player pauses only within this many ms of play of a level
PauseWindow == 300
\* at most this many async activations are suspended at a time
MaxTasks == 2

\* Random sources: three streams of pairs of raw draws (0..RES-1) each, for
\* the scattered islands, the collectibles and the bar offsets.
\*   collect <<50,95>> is the cell (6,12), <<45,95>> is (5,12)
RandomSources ==
    { [islands |-> << <<30, 30>>, <<60, 60>>, <<30, 30>>, <<10, 80>>, <<85, 15>>, <<55, 45>> >>,
       collect |-> << <<50, 95>> >>,
       offsets |-> << <<0, 0>> >>],
      [islands |-> << <<5, 5>>, <<95, 95>>, <<50, 50>>, <<5, 95>>, <<95, 5>>, <<40, 60>> >>,
       collect |-> << <<10, 10>>, <<0, 0>>, <<50, 55>>, <<50, 95>>, <<99, 99>>, <<20, 40>>,
                      <<50, 95>>, <<40, 20>>, <<60, 30>>, <<30, 60>>, <<80, 80>>, <<70, 10>>,
                      <<15, 70>>, <<90, 50>>, <<35, 35>> >>,
       offsets |-> << <<50, 50>>, <<25, 25>>, <<75, 75>>, <<90, 90>> >>] }

\* ------------------------------------------------------------------------
\* Async activations: startGame and nextLevel suspend at their awaits.
\*   at = "tutorial": startGame awaits showTutorial()
\*   at = "sleep":    nextLevel awaits sleep(1000)
\*   at = "cd3", "cd2", "cd1": runCountdown awaits sleep(800) after showing
\*                    3, 2, 1;  at = "go": it awaits sleep(400) after GO
\* ------------------------------------------------------------------------
Task(fn, at, wake) == [fn |-> fn, at |-> at, wake |-> wake]

RemoveAt(seq, i) == SubSeq(seq, 1, i - 1) \o SubSeq(seq, i + 1, Len(seq))

\* runCountdown up to its first await
runCountdownBegin(gs) == [gs EXCEPT !.isCountingDown = TRUE]

\* startGame up to its first await, for an accepted call
startGameBody(gs) ==
    [gs EXCEPT !.currentLevel = 1,
               !.totalScore = 0,
               !.livesRemaining = START_LIVES,
               !.isGameOver = FALSE,
               !.isPlaying = FALSE,
               !.invincible = FALSE,
               !.lavaTiles = {},
               !.collectibleTiles = {},
               !.safeIslands = {}]

HideAll(scr) ==
    [scr EXCEPT !.start = FALSE, !.gameOver = FALSE, !.win = FALSE, !.levelComplete = FALSE]

\* startGame(): st is [gs, scr, guard, tasks]
startGame(st, t) ==
    IF st.guard THEN st
    ELSE IF ~st.gs.tutorialShown
         THEN [gs |-> startGameBody(st.gs),
               scr |-> [HideAll(st.scr) EXCEPT !.tutorial = TRUE],
               guard |-> TRUE,
               tasks |-> Append(st.tasks, Task("startGame", "tutorial", 0))]
         ELSE [gs |-> runCountdownBegin(startGameBody(st.gs)),
               scr |-> HideAll(st.scr),
               guard |-> TRUE,
               tasks |-> Append(st.tasks, Task("startGame", "cd3", t + 800))]

restartGame(st, t) ==
    startGame([st EXCEPT !.guard = FALSE,
                         !.gs.lavaTiles = {},
                         !.gs.collectibleTiles = {},
                         !.gs.safeIslands = {}], t)

\* nextLevel that leaves livesRemaining as it is
nextLevelKeepsLives(st, t) ==
    [st EXCEPT !.scr.levelComplete = FALSE,
               !.gs.currentLevel = @ + 1,
               !.gs.lavaTiles = {},
               !.gs.collectibleTiles = {},
               !.gs.safeIslands = {},
               !.tasks = Append(@, Task("nextLevel", "sleep", t + 1000))]

\* nextLevel that leaves the level-complete screen up
nextLevelKeepsScreen(st, t) ==
    [st EXCEPT !.gs.currentLevel = @ + 1,
               !.gs.livesRemaining = START_LIVES,
               !.gs.lavaTiles = {},
               !.gs.collectibleTiles = {},
               !.gs.safeIslands = {},
               !.tasks = Append(@, Task("nextLevel", "sleep", t + 1000))]

\* nextLevel() up to its first await
nextLevel(st, t) ==
    [st EXCEPT !.scr.levelComplete = FALSE,
               !.gs.currentLevel = @ + 1,
               !.gs.livesRemaining = START_LIVES,
               !.gs.lavaTiles = {},
               !.gs.collectibleTiles = {},
               !.gs.safeIslands = {},
               !.tasks = Append(@, Task("nextLevel", "sleep", t + 1000))]

Session == [gs |-> GameState, scr |-> screens, guard |-> isStartingGame, tasks |-> tasks]

SetSession(st) ==
    /\ GameState' = st.gs
    /\ screens' = st.scr
    /\ isStartingGame' = st.guard
    /\ tasks' = st.tasks

\* the tutorial's dismissTutorial: hide the popup, remember it was shown and
\* let every startGame waiting on it run on into runCountdown
dismissTutorial(st, t) ==
    [st EXCEPT !.scr.tutorial = FALSE,
               !.gs = runCountdownBegin([@ EXCEPT !.tutorialShown = TRUE]),
               !.tasks = [i \in 1..Len(@) |->
                            IF @[i].at = "tutorial"
                            THEN Task(@[i].fn, "cd3", t + 800)
                            ELSE @[i]]]

TutorialPending(ts) == \E i \in 1..Len(ts) : ts[i].at = "tutorial"

\* ------------------------------------------------------------------------
\* Leaderboard server (express): GET and POST /api/leaderboard over the
\* JSON file leaderboard.json
\* ------------------------------------------------------------------------
MAX_NAME == 20
MAX_SCORE == 120
MAX_ENTRIES == 100
TOP_N == 10

\* A value of the JSON request body as typeof sees it: t is "string",
\* "number" or "undefined"; s is the text of a string, a sequence of
\* characters; n is the value of a number.
Text(w) == [t |-> "string", s |-> w, n |-> 0]
Num(v) == [t |-> "number", s |-> << >>, n |-> v]
Absent == [t |-> "undefined", s |-> << >>, n |-> 0]

validCharacters ==
    { <<"c", "h", "i", "c", "k", "e", "n">>, <<"b", "a", "n", "a", "n", "a">>,
      <<"s", "k", "i", "e", "r">>, <<"t", "u", "r", "t", "l", "e">> }

chicken == <<"c", "h", "i", "c", "k", "e", "n">>

\* String.prototype.trim
RECURSIVE TrimStart(_)
TrimStart(w) == IF w /= << >> /\ Head(w) = " " THEN TrimStart(Tail(w)) ELSE w

RECURSIVE TrimEnd(_)
TrimEnd(w) ==
    IF w /= << >> /\ w[Len(w)] = " " THEN TrimEnd(SubSeq(w, 1, Len(w) - 1)) ELSE w

trim(w) == TrimEnd(TrimStart(w))

\* name.trim().substring(0, 20)
sanitizedName(name) == LET w == trim(name.s) IN SubSeq(w, 1, Min(Len(w), MAX_NAME))

sanitizedCharacter(character) ==
    IF character.t = "string" /\ character.s \in validCharacters THEN character.s ELSE chicken

\* The validation of the POST handler: the error it answers with, or "ok"
ValidationUntrimmed(req) ==
    IF req.name.t /= "string" \/ req.name.s = << >>
    THEN "Name is required"
    ELSE IF req.score.t /= "number" \/ req.score.n < 0 \/ req.score.n > MAX_SCORE
    THEN "Invalid score"
    ELSE IF req.level.t /= "number" \/ req.level.n < 1 \/ req.level.n > TOTAL
    THEN "Invalid level"
    ELSE "ok"

Validation(req) ==
    IF req.name.t /= "string" \/ req.name.s = << >> \/ Len(trim(req.name.s)) = 0
    THEN "Name is required"
    ELSE IF req.score.t /= "number" \/ req.score.n < 0 \/ req.score.n > MAX_SCORE
    THEN "Invalid score"
    ELSE IF req.level.t /= "number" \/ req.level.n < 1 \/ req.level.n > TOTAL
    THEN "Invalid level"
    ELSE "ok"

\* Array.prototype.sort with a comparator that orders by two numbers, the
\* first before the second: key[i] is the pair of entries[i], smaller pairs
\* go first.  The sort is stable: the element at index i ends up behind the
\* elements of a smaller pair and behind the earlier elements of an equal one.
SortBy(entries, key) ==
    LET n == Len(entries)
        k == SubSeq(key, 1, n)
        pos == SubSeq([i \in 1..n |->
                         1 + Cardinality({ j \in 1..n :
                               \/ k[j][1] < k[i][1]
                               \/ k[j][1] = k[i][1] /\ k[j][2] < k[i][2]
                               \/ k[j] = k[i] /\ j < i })],
                      1, n)
    IN  SubSeq([p \in 1..n |-> entries[CHOOSE i \in 1..n : pos[i] = p]], 1, n)

\* The entries of the highest score in their order, then those of the next
\* score, and so on down the set `scores`
RECURSIVE ScoreGroups(_, _)
ScoreGroups(entries, scores) ==
    IF scores = {} THEN << >>
    ELSE LET best == CHOOSE s \in scores : \A t \in scores : t <= s
         IN  SelectSeq(entries, LAMBDA e : e.score = best)
                \o ScoreGroups(entries, scores \ {best})

\* entries.sort((a, b) => b.score - a.score): descending scores; the sort is
\* stable, so the entries of one score keep the order they had
sortByScore(entries) ==
    ScoreGroups(entries, { entries[i].score : i \in 1..Len(entries) })

\* (a, b) => b.score - a.score || new Date(a.created_at) - new Date(b.created_at):
\* the higher score first, then the earlier date
ByScoreThenDate(a) == <<0 - a.score, a.created_at>>

\* findIndex(e => e.id === id) + 1
RankOf(entries, id) ==
    LET hits == { i \in 1..Len(entries) : entries[i].id = id }
    IN  IF hits = {} THEN 0 ELSE CHOOSE i \in hits : \A j \in hits : i <= j

NoResponse == [status |-> 0, error |-> "", entries |-> << >>, success |-> FALSE,
               id |-> 0, rank |-> 0]

\* the GET comparator with the two dates exchanged
ByScoreThenNewest(a) == <<0 - a.score, 0 - a.created_at>>

\* GET /api/leaderboard breaking ties by the latest timestamp
getLeaderboardNewestFirst(file) ==
    LET sorted == SortBy(file.entries,
                         [i \in 1..Len(file.entries) |-> ByScoreThenNewest(file.entries[i])])
    IN  [NoResponse EXCEPT !.status = 200,
                           !.entries = SubSeq(sorted, 1, Min(Len(sorted), TOP_N))]

\* app.get('/api/leaderboard'): the ten best of the file's entries
getLeaderboard(file) ==
    LET sorted == SortBy(file.entries,
                         [i \in 1..Len(file.entries) |-> ByScoreThenDate(file.entries[i])])
    IN  [NoResponse EXCEPT !.status = 200,
                           !.entries = SubSeq(sorted, 1, Min(Len(sorted), TOP_N))]

\* the slice taken from the end of the sorted list: slice(-100)
keepLast(sorted) ==
    IF Len(sorted) > MAX_ENTRIES
    THEN SubSeq(sorted, Len(sorted) - MAX_ENTRIES + 1, Len(sorted))
    ELSE sorted

\* data.entries.slice(0, 100) when there are more than 100
keepTop(sorted) ==
    IF Len(sorted) > MAX_ENTRIES THEN SubSeq(sorted, 1, MAX_ENTRIES) ELSE sorted

\* the POST handler from writeData on: kept is data.entries after the sort
\* and the slice; written tells whether fs.writeFileSync succeeded
saveAndAnswer(file, newEntry, kept, written) ==
    [file |-> IF written THEN [entries |-> kept, nextId |-> file.nextId + 1] ELSE file,
     stored |-> IF written THEN {newEntry} ELSE {},
     res |-> [NoResponse EXCEPT !.status = 200, !.success = TRUE,
                                !.id = newEntry.id,
                                !.rank = RankOf(kept, newEntry.id)]]

\* the POST handler from its sort on
sortAndSave(file, newEntry, written) ==
    saveAndAnswer(file, newEntry, keepTop(sortByScore(Append(file.entries, newEntry))),
                  written)

\* app.post('/api/leaderboard'): the file and the response it leaves
postLeaderboard(file, req, t, written) ==
    IF Validation(req) /= "ok"
    THEN [file |-> file, stored |-> {},
          res |-> [NoResponse EXCEPT !.status = 400, !.error = Validation(req)]]
    ELSE sortAndSave(file,
                     [id |-> file.nextId,
                      name |-> sanitizedName(req.name),
                      score |-> req.score.n,
                      level |-> req.level.n,
                      character |-> sanitizedCharacter(req.character),
                      created_at |-> t],
                     written)

\* initDataFile: { entries: [], nextId: 1 }
EmptyData == [entries |-> << >>, nextId |-> 1]

\* the game's specifications leave the server alone
ServerOff == data = EmptyData /\ response = NoResponse /\ accepted = {}

\* ------------------------------------------------------------------------
\* Initial states
\* ------------------------------------------------------------------------
NoScreens == [start |-> FALSE, gameOver |-> FALSE, levelComplete |-> FALSE,
              win |-> FALSE, tutorial |-> FALSE]

\* the GameState literal of src/game.js:45-74
GameState0 ==
    [currentLevel |-> 1, totalScore |-> 0, livesRemaining |-> START_LIVES,
     isPaused |-> FALSE, isGameOver |-> FALSE, isPlaying |-> FALSE, isCountingDown |-> FALSE,
     playerPosition |-> Spawn, lavaTiles |-> {}, collectibleTiles |-> {}, safeIslands |-> {},
     isHopping |-> FALSE, hopStartTime |-> 0, lavaPatterns |-> << >>,
     invincible |-> FALSE, invincibleUntil |-> 0,
     levelStartTime |-> 0, currentLevelScore |-> maxLevelScore, tutorialShown |-> FALSE]

\* T0 is the value of Date.now() in the initial states
T0 == 20000

\* After init(): the start screen is shown and nothing runs yet.
Init ==
    /\ GameState = GameState0
    /\ screens = [NoScreens EXCEPT !.start = TRUE]
    /\ isStartingGame = FALSE
    /\ tasks = << >>
    /\ timers = << >>
    /\ now = T0
    /\ frame = "idle"
    /\ pausedMs = 0
    /\ hops = 0
    /\ ServerOff

\* The instant at which the countdown of level L is about to end (its last
\* sleep is over): levels 1..L-1 were completed, each for the full score.

LevelStartState(L, score) ==
    [GameState0 EXCEPT !.currentLevel = L,
                       !.totalScore = score,
                       !.isCountingDown = TRUE,
                       !.tutorialShown = TRUE,
                       !.lavaPatterns = IF L = 1 THEN << >>
                                        ELSE generateLavaPatterns(L - 1, << <<0, 0>> >>)]

InitLevels ==
    /\ \E L \in Levels :
         /\ GameState = LevelStartState(L, maxLevelScore * (L - 1))
         /\ isStartingGame = (L = 1)
         /\ tasks = << Task(IF L = 1 THEN "startGame" ELSE "nextLevel", "go", T0) >>
    /\ screens = NoScreens
    /\ timers = << >>
    /\ now = T0
    /\ frame = "idle"
    /\ pausedMs = 0
    /\ hops = 0
    /\ ServerOff

\* ------------------------------------------------------------------------
\* Actions
\* ------------------------------------------------------------------------
Idle == frame = "idle"

SetWorld(w) ==
    /\ GameState' = w.gs
    /\ screens' = w.scr
    /\ timers' = w.tm

\* The deadlines of the pending sleeps and timers that are still ahead
Deadlines ==
    { tasks[i].wake : i \in { k \in 1..Len(tasks) : tasks[k].at /= "tutorial" } }
    \cup { timers[i] : i \in 1..Len(timers) }

Ahead == { d \in Deadlines : d > now }

Earliest(S) == CHOOSE d \in S : \A e \in S : d <= e

\* ms of unpaused play since the level started, at time t
PlayedAt(t) == t - GameState.levelStartTime - pausedMs

\* How long after the previous callback the browser calls animate(): at
\* once; when the hop in progress is over; after the player stood still for
\* a while; after a long break while paused; or when the next sleep or
\* timer is due.
FrameCandidates ==
    {0}
    \cup (IF /\ GameState.isPlaying /\ ~GameState.isPaused /\ ~GameState.isCountingDown
             /\ GameState.isHopping
          THEN {HOP_DURATION}
          ELSE {})
    \cup (IF /\ GameState.isPlaying /\ ~GameState.isPaused /\ ~GameState.isCountingDown
             /\ ~GameState.isHopping
             /\ GameState.currentLevel \in LongLevels
          THEN { dt \in StandSteps : PlayedAt(now + dt) <= LongWindow }
          ELSE {})
    \cup (IF GameState.isPlaying /\ GameState.isPaused /\ pausedMs + PauseStep <= MaxPausedMs
          THEN {PauseStep}
          ELSE {})
    \cup (IF Ahead /= {} THEN {Earliest(Ahead) - now} ELSE {})

\* The callbacks of sleeps and timers run when they are due: no time passes
\* beyond a pending deadline before its callback has run.
FrameDelays ==
    { dt \in FrameCandidates : dt = 0 \/ \A d \in Deadlines : now + dt <= d }

\* animate() with the invincibility deadline tested inside the playing block
AnimateDeadlineInBlock(dt) ==
    /\ Idle
    /\ now' = now + dt
    /\ pausedMs' = IF GameState.isPaused THEN pausedMs + dt ELSE pausedMs
    /\ UNCHANGED hops
    /\ LET playing == GameState.isPlaying /\ ~GameState.isPaused /\ ~GameState.isCountingDown
           gs1 == IF playing /\ GameState.invincible /\ now' > GameState.invincibleUntil
                  THEN [GameState EXCEPT !.invincible = FALSE]
                  ELSE GameState
       IN  /\ GameState' = gs1
           /\ frame' = IF playing THEN "lava" ELSE "idle"
    /\ UNCHANGED <<screens, isStartingGame, tasks, timers>>
    /\ UNCHANGED server

\* animate(), called dt ms after the previous callback: the invincibility
\* deadline, then the test that guards the playing block
Animate(dt) ==
    /\ Idle
    /\ now' = now + dt
    /\ pausedMs' = IF GameState.isPaused THEN pausedMs + dt ELSE pausedMs
    /\ UNCHANGED hops
    /\ LET gs1 == IF GameState.invincible /\ now' > GameState.invincibleUntil
                  THEN [GameState EXCEPT !.invincible = FALSE]
                  ELSE GameState
       IN  /\ GameState' = gs1
           /\ frame' = IF gs1.isPlaying /\ ~gs1.isPaused /\ ~gs1.isCountingDown
                       THEN "lava" ELSE "idle"
    /\ UNCHANGED <<screens, isStartingGame, tasks, timers>>
    /\ UNCHANGED server

AnimateBegin == \E dt \in FrameDelays : Animate(dt)

HasSnake(gs) == \E i \in 1..Len(gs.lavaPatterns) : gs.lavaPatterns[i].type = "snake"

\* animate(): updateLavaPatterns(...)
FrameLava ==
    /\ frame = "lava"
    /\ \E turn \in (IF HasSnake(GameState) THEN BOOLEAN ELSE {FALSE}),
          side \in (IF HasSnake(GameState) THEN BOOLEAN ELSE {FALSE}) :
         SetWorld(updateLavaPatterns(World, now, turn, side))
    /\ frame' = "hop"
    /\ UNCHANGED <<isStartingGame, tasks, now, pausedMs, hops>>
    /\ UNCHANGED server

\* animate(): updateHopAnimation() up to collectItem
FrameHop ==
    /\ frame = "hop"
    /\ SetWorld(updateHopAnimation(World, now))
    /\ frame' = IF HopLands(GameState, now) THEN "land" ELSE "score"
    /\ UNCHANGED <<isStartingGame, tasks, now, pausedMs, hops>>
    /\ UNCHANGED server

\* animate(): the checkLavaCollision() that ends a completed hop
FrameLand ==
    /\ frame = "land"
    /\ SetWorld(LandingCheck(World, now))
    /\ frame' = "score"
    /\ UNCHANGED <<isStartingGame, tasks, now, pausedMs, hops>>
    /\ UNCHANGED server

\* animate(): updateTimeBasedScore(), end of the callback
FrameScore ==
    /\ frame = "score"
    /\ GameState' = updateTimeBasedScore(GameState, now)
    /\ frame' = "idle"
    /\ UNCHANGED <<screens, isStartingGame, tasks, timers, now, pausedMs, hops>>
    /\ UNCHANGED server

\* the cells the player tries to hop to
MayTry(x, z) ==
    \/ OutOfGrid(x, z)
    \/ (IF x >= Spawn[1] THEN x - Spawn[1] ELSE Spawn[1] - x)
       + (IF z >= Spawn[2] THEN z - Spawn[2] ELSE Spawn[2] - z) <= MaxReach

MoveDirs == { <<0, -1>>, <<0, 1>>, <<-1, 0>>, <<1, 0>> }

\* an arrow key / WASD / swipe: movePlayer(dx, dz)
MovePlayer(d) ==
    /\ Idle
    /\ hops < HopBudget(GameState.currentLevel)
    /\ MayTry(GameState.playerPosition[1] + d[1], GameState.playerPosition[2] + d[2])
    /\ GameState' = movePlayer(GameState, d[1], d[2], now)
    /\ hops' = IF GameState' /= GameState THEN hops + 1 ELSE hops
    /\ UNCHANGED <<screens, isStartingGame, tasks, timers, now, frame, pausedMs>>
    /\ UNCHANGED server

Move == \E d \in MoveDirs : MovePlayer(d)

\* Escape: togglePause().  The player uses the pause key on the levels
\* that are played for long: to pause early in the level, and to resume.
PressEscape ==
    /\ Idle
    /\ GameState.currentLevel \in LongLevels
    /\ GameState.isPaused \/ (pausedMs < MaxPausedMs /\ PlayedAt(now) <= PauseWindow)
    /\ GameState' = togglePause(GameState)
    /\ UNCHANGED <<screens, isStartingGame, tasks, timers, now, frame, pausedMs, hops>>
    /\ UNCHANGED server

\* setTimeout(() => levelComplete(), 300) fires
LevelCompleteTimer ==
    /\ Idle
    /\ timers /= << >>
    /\ now >= Head(timers)
    /\ SetWorld(levelComplete([World EXCEPT !.tm = Tail(@)]))
    /\ UNCHANGED <<isStartingGame, tasks, now, frame, pausedMs, hops>>
    /\ UNCHANGED server

\* a sleep of a suspended activation is over; it runs to its next await
ResumeTask(i) ==
    /\ Idle
    /\ tasks[i].at /= "tutorial"
    /\ now >= tasks[i].wake
    /\ CASE tasks[i].at = "sleep" ->
              /\ GameState' = runCountdownBegin(GameState)
              /\ tasks' = [tasks EXCEPT ![i] = Task(@.fn, "cd3", now + 800)]
              /\ UNCHANGED <<isStartingGame, pausedMs, hops>>
         [] tasks[i].at = "cd3" ->
              /\ tasks' = [tasks EXCEPT ![i] = Task(@.fn, "cd2", now + 800)]
              /\ UNCHANGED <<GameState, isStartingGame, pausedMs, hops>>
         [] tasks[i].at = "cd2" ->
              /\ tasks' = [tasks EXCEPT ![i] = Task(@.fn, "cd1", now + 800)]
              /\ UNCHANGED <<GameState, isStartingGame, pausedMs, hops>>
         [] tasks[i].at = "cd1" ->
              /\ tasks' = [tasks EXCEPT ![i] = Task(@.fn, "go", now + 400)]
              /\ UNCHANGED <<GameState, isStartingGame, pausedMs, hops>>
         [] tasks[i].at = "go" ->
              /\ \E rnd \in RandomSources :
                   GameState' = initializeLevel([GameState EXCEPT !.isCountingDown = FALSE],
                                                now, rnd)
              /\ tasks' = RemoveAt(tasks, i)
              /\ isStartingGame' = IF tasks[i].fn = "startGame" THEN FALSE ELSE isStartingGame
              /\ pausedMs' = 0
              /\ hops' = 0
    /\ UNCHANGED <<screens, timers, now, frame>>
    /\ UNCHANGED server

Resume == \E i \in 1..Len(tasks) : ResumeTask(i)

\* The buttons and keys that start a game or a level are used during the
\* first SessionMs ms that are observed
SessionMs == 600

MayStart == now <= T0 + SessionMs

\* click on the start button
ClickStart ==
    /\ Idle
    /\ MayStart
    /\ screens.start
    /\ Len(tasks) < MaxTasks
    /\ SetSession(startGame(Session, now))
    /\ UNCHANGED <<timers, now, frame, pausedMs, hops>>
    /\ UNCHANGED server

\* click on the retry button of the game-over screen
ClickRetry ==
    /\ Idle
    /\ MayStart
    /\ screens.gameOver
    /\ Len(tasks) < MaxTasks
    /\ SetSession(restartGame(Session, now))
    /\ UNCHANGED <<timers, now, frame, pausedMs, hops>>
    /\ UNCHANGED server

\* click on the play-again button of the win screen
ClickPlayAgain ==
    /\ Idle
    /\ MayStart
    /\ screens.win
    /\ Len(tasks) < MaxTasks
    /\ SetSession(restartGame(Session, now))
    /\ UNCHANGED <<timers, now, frame, pausedMs, hops>>
    /\ UNCHANGED server

\* click on the next-level button of the level-complete screen
ClickNextLevel ==
    /\ Idle
    /\ MayStart
    /\ screens.levelComplete
    /\ Len(tasks) < MaxTasks
    /\ SetSession(nextLevel(Session, now))
    /\ UNCHANGED <<timers, now, frame, pausedMs, hops>>
    /\ UNCHANGED server

\* the keydown handler of setupInputHandlers for Enter / Space
EnterDispatch(st, t) ==
    IF st.scr.start THEN startGame(st, t)
    ELSE IF st.scr.gameOver THEN restartGame(st, t)
    ELSE IF st.scr.levelComplete THEN nextLevel(st, t)
    ELSE IF st.scr.win THEN restartGame(st, t)
    ELSE st

\* Enter / Space: the handler above, then the tutorial's keyHandler when a
\* tutorial was waiting before the key was pressed
PressEnter ==
    /\ Idle
    /\ MayStart
    /\ Len(tasks) < MaxTasks
    /\ LET st1 == EnterDispatch(Session, now)
       IN  SetSession(IF TutorialPending(tasks) THEN dismissTutorial(st1, now) ELSE st1)
    /\ UNCHANGED <<timers, now, frame, pausedMs, hops>>
    /\ UNCHANGED server

\* click / touch on the tutorial's OK button
ClickTutorialOk ==
    /\ Idle
    /\ screens.tutorial
    /\ TutorialPending(tasks)
    /\ SetSession(dismissTutorial(Session, now))
    /\ UNCHANGED <<timers, now, frame, pausedMs, hops>>
    /\ UNCHANGED server

\* handleTap(): a tap on the game area while the tutorial popup is shown
TapScreen ==
    /\ Idle
    /\ screens.tutorial
    /\ screens' = [screens EXCEPT !.tutorial = FALSE]
    /\ GameState' = [GameState EXCEPT !.tutorialShown = TRUE]
    /\ UNCHANGED <<isStartingGame, tasks, timers, now, frame, pausedMs, hops>>
    /\ UNCHANGED server

Next ==
    \/ AnimateBegin
    \/ FrameLava
    \/ FrameHop
    \/ FrameLand
    \/ FrameScore
    \/ Move
    \/ PressEscape
    \/ LevelCompleteTimer
    \/ Resume
    \/ ClickStart
    \/ ClickRetry
    \/ ClickPlayAgain
    \/ ClickNextLevel
    \/ PressEnter
    \/ ClickTutorialOk
    \/ TapScreen

Spec == Init /\ [][Next]_vars

\* Play observed from the start of each level
NextLevels ==
    \/ AnimateBegin
    \/ FrameLava
    \/ FrameHop
    \/ FrameLand
    \/ FrameScore
    \/ Move
    \/ PressEscape
    \/ LevelCompleteTimer
    \/ Resume

SpecLevels == InitLevels /\ [][NextLevels]_vars

\* ------------------------------------------------------------------------
\* A level in mid-play: the level started MidLevelAt ms ago, the player
\* stands on the spawn cell with 1..START_LIVES lives left (after a hit the
\* player is put back there) and the invincibility of the last hit is over.
\* ------------------------------------------------------------------------
MidLevelAt == 5200

InitMidLevel ==
    /\ \E L \in Levels, rnd \in RandomSources, n \in 1..START_LIVES :
         GameState = [initializeLevel([LevelStartState(L, maxLevelScore * (L - 1))
                                          EXCEPT !.isCountingDown = FALSE],
                                      T0 - MidLevelAt, rnd)
                        EXCEPT !.livesRemaining = n,
                               !.invincibleUntil = T0 - 1]
    /\ screens = NoScreens
    /\ isStartingGame = FALSE
    /\ tasks = << >>
    /\ timers = << >>
    /\ now = T0
    /\ frame = "idle"
    /\ pausedMs = 0
    /\ hops = 0
    /\ ServerOff

NextMidLevel ==
    \/ AnimateBegin
    \/ FrameLava
    \/ FrameHop
    \/ FrameLand
    \/ FrameScore
    \/ Move
    \/ LevelCompleteTimer

SpecMidLevel == InitMidLevel /\ [][NextMidLevel]_vars

\* Sessions observed from construction, from the start of one of the levels
\* GameLevels, or from the middle of a level on the last life
GameLevels == {10, 11, 12}

InitGame ==
    \/ Init
    \/ InitLevels /\ GameState.currentLevel \in GameLevels
    \/ InitMidLevel /\ GameState.livesRemaining = 1

SpecGame == InitGame /\ [][Next]_vars

\* ------------------------------------------------------------------------
\* The score function on its own: a level that started at T0 is being
\* played and updateTimeBasedScore() runs at later and later instants.
\* ------------------------------------------------------------------------
\* the instants are up to this many ms after the level start
MaxElapsed == 32000
\* ms between two evaluations
ScoreSteps == {1, 999, 7000}

InitScore ==
    /\ GameState = [GameState0 EXCEPT !.isPlaying = TRUE, !.levelStartTime = T0]
    /\ screens = NoScreens
    /\ isStartingGame = FALSE
    /\ tasks = << >>
    /\ timers = << >>
    /\ now = T0
    /\ frame = "idle"
    /\ pausedMs = 0
    /\ hops = 0
    /\ ServerOff

ScoreTick(dt) ==
    /\ now + dt - GameState.levelStartTime <= MaxElapsed
    /\ now' = now + dt
    /\ GameState' = updateTimeBasedScore(GameState, now')
    /\ UNCHANGED <<screens, isStartingGame, tasks, timers, frame, pausedMs, hops>>
    /\ UNCHANGED server

NextScore == \E dt \in ScoreSteps : ScoreTick(dt)

SpecScore == InitScore /\ [][NextScore]_vars

\* ------------------------------------------------------------------------
\* The pattern library on its own: one pattern of any kind is active and the
\* occupancy resolver evaluates it at later and later instants.
\* ------------------------------------------------------------------------
\* the instants are up to this many ms
MaxPatternTime == 21000
\* ms between two evaluations (both longer than the snake's move period)
PatternSteps == {350, 4900}
SnakePeriod == 300
SnakeLength == 2

PatternSamples ==
    { addHorizontalBar(4, 3, 1, 50, 0), addHorizontalBar(9, 3, -1, 50, 99),
      addVerticalBar(5, 3, 1, 50, 50), addVerticalBar(8, 4, -1, 60, 99),
      addWavePattern(80), addExpandingRing(100),
      addSnakePattern(SnakeLength, SnakePeriod),
      addBlinkingTiles(3, 800, << <<0, 0>>, <<99, 99>>, <<50, 25>> >>),
      addDiagonalSweep(1, 60), addDiagonalSweep(-1, 60),
      addRowMarch(80), addColumnMarch(70), addRotatingCross(30), addSpiralPattern(40),
      addRollingX(3, 60, 6)[1], addRollingX(3, 60, 6)[3],
      addPulsingGrayTiles(2400), addStandardRedFloor(100) }

InitPatterns ==
    /\ \E p \in PatternSamples, L \in {1, TOTAL} :
         GameState = [GameState0 EXCEPT !.currentLevel = L,
                                        !.isPlaying = TRUE,
                                        !.safeIslands = createStartingZone,
                                        !.lavaPatterns = <<p>>]
    /\ screens = NoScreens
    /\ isStartingGame = FALSE
    /\ tasks = << >>
    /\ timers = << >>
    /\ now = 0
    /\ frame = "idle"
    /\ pausedMs = 0
    /\ hops = 0
    /\ ServerOff

\* the pattern loop of updateLavaPatterns at the instant now + dt
PatternTick(dt) ==
    /\ now + dt <= MaxPatternTime
    /\ now' = now + dt
    /\ \E turn \in (IF HasSnake(GameState) THEN BOOLEAN ELSE {FALSE}),
          side \in (IF HasSnake(GameState) THEN BOOLEAN ELSE {FALSE}) :
         GameState' = ResolveOccupancy(GameState, now', turn, side)
    /\ UNCHANGED <<screens, isStartingGame, tasks, timers, frame, pausedMs, hops>>
    /\ UNCHANGED server

NextPatterns == \E dt \in PatternSteps : PatternTick(dt)

SpecPatterns == InitPatterns /\ [][NextPatterns]_vars

\* ------------------------------------------------------------------------
\* The two pulse patterns on their own, on the layout of a level: the
\* resolver has evaluated the pattern at time 0 and evaluates it again at
\* later and later instants.
\* ------------------------------------------------------------------------
MaxPulseTime == 9000
PulseSteps == {500, 1500}
\* a second interval, besides the 1500 ms of addStandardRedFloor
ShortInterval == 1000

PulseSamples ==
    { addStandardRedFloor(100),
      [addStandardRedFloor(100) EXCEPT !.interval = ShortInterval],
      addPulsingGrayTiles(2400),
      addPulsingGrayTiles(1600) }

InitPulse ==
    /\ \E p \in PulseSamples, rnd \in RandomSources :
         GameState = ResolveOccupancy([initializeLevel(GameState0, 0, rnd)
                                         EXCEPT !.lavaPatterns = <<p>>],
                                      0, FALSE, FALSE)
    /\ screens = NoScreens
    /\ isStartingGame = FALSE
    /\ tasks = << >>
    /\ timers = << >>
    /\ now = 0
    /\ frame = "idle"
    /\ pausedMs = 0
    /\ hops = 0
    /\ ServerOff

\* the pattern loop of updateLavaPatterns at the instant now + dt
PulseTick(dt) ==
    /\ now + dt <= MaxPulseTime
    /\ now' = now + dt
    /\ GameState' = ResolveOccupancy(GameState, now', FALSE, FALSE)
    /\ UNCHANGED <<screens, isStartingGame, tasks, timers, frame, pausedMs, hops>>
    /\ UNCHANGED server

NextPulse == \E dt \in PulseSteps : PulseTick(dt)

SpecPulse == InitPulse /\ [][NextPulse]_vars

\* ------------------------------------------------------------------------
\* The invincibility window observed to its end: requestAnimationFrame
\* re-arms animate() on every call, so frames keep coming while the player
\* is invincible, whatever the player does; the wall clock advances between
\* frames; a callback that started runs to its end; and a sleep or a timer
\* that is due runs its callback.
\* ------------------------------------------------------------------------
\* how long after the previous callback a frame comes while invincible
WaitSteps == {1300}

\* (the frame that follows a hop in progress is the one that ends it)
WaitTick ==
    \E dt \in WaitSteps :
        /\ GameState.invincible
        /\ GameState.isHopping => (GameState.isPaused \/ ~GameState.isPlaying)
        /\ \A d \in Deadlines : now + dt <= d
        /\ Animate(dt)

\* a frame that comes after the wall clock advanced
TimePasses ==
    \/ WaitTick
    \/ \E dt \in FrameDelays : dt > 0 /\ Animate(dt)

\* A level that is played for long, MaxReach hops into play: the player,
\* with more than one life left, landed on the cell c, MaxReach hops from
\* the spawn cell (picking up its collectible, if any), and the next
\* frame's updateLavaPatterns found the cell hazardous.
HitAt == HOP_DURATION * MaxReach

HitWorld(L, rnd, n, c) ==
    LET gs0 == [initializeLevel([LevelStartState(L, maxLevelScore * (L - 1))
                                   EXCEPT !.isCountingDown = FALSE],
                                T0 - HitAt, rnd)
                  EXCEPT !.livesRemaining = n, !.playerPosition = c]
        w0  == [gs |-> gs0, scr |-> NoScreens, tm |-> << >>]
    IN  updateLavaPatterns(collectItem(w0, c, T0), T0, FALSE, FALSE)

InitInvincible ==
    /\ \E L \in LongLevels, rnd \in RandomSources, n \in 2..START_LIVES :
         \E c \in { g \in Grid : (Max(g[1], Spawn[1]) - Min(g[1], Spawn[1]))
                                    + (Max(g[2], Spawn[2]) - Min(g[2], Spawn[2])) = MaxReach } :
            LET w == HitWorld(L, rnd, n, c)
            IN  /\ w.gs.invincible
                /\ GameState = w.gs
                /\ timers = w.tm
    /\ screens = NoScreens
    /\ isStartingGame = FALSE
    /\ tasks = << >>
    /\ now = T0
    /\ frame = "hop"
    /\ pausedMs = 0
    /\ hops = MaxReach
    /\ ServerOff

\* the player pauses and resumes while invincible
PauseInWindow == GameState.invincible /\ PressEscape

NextInvincible ==
    \/ AnimateBegin
    \/ WaitTick
    \/ FrameLava
    \/ FrameHop
    \/ FrameLand
    \/ FrameScore
    \/ Move
    \/ PauseInWindow
    \/ LevelCompleteTimer

SpecInvincible ==
    /\ InitInvincible
    /\ [][NextInvincible]_vars
    /\ WF_vars(FrameLava \/ FrameHop \/ FrameLand \/ FrameScore)
    /\ SF_vars(LevelCompleteTimer \/ TimePasses)

\* ------------------------------------------------------------------------
\* The leaderboard server on its own: the data file holds what earlier
\* submissions left in it, and clients post scores and fetch the board.
\* ------------------------------------------------------------------------
\* Date.now() when the server is first observed
ServerT0 == 1000
\* how many entries the file holds then
StoreSizes == {0, 99, 100}
\* the best score in the file then
StoreBest == 60
\* submissions observed, and for how many ms
MaxPosts == 2
MaxServerMs == 1

a25 == [i \in 1..25 |-> "c"]

\* The file after n submissions, one a millisecond, of scores that went
\* down by 10 after every 50 submissions
StoreOf(n) ==
    [entries |-> [i \in 1..n |->
                    [id |-> i, name |-> <<"a">>, score |-> StoreBest - (i \div 50) * 10,
                     level |-> 1, character |-> chicken, created_at |-> i]],
     nextId |-> n + 1]

Body(nm, sc, lv, ch) == [name |-> nm, score |-> sc, level |-> lv, character |-> ch]

turtle == <<"t", "u", "r", "t", "l", "e">>

\* the request bodies that clients send
Requests ==
    { Body(Text(<<"a">>), Num(30), Num(1), Text(turtle)),
      Body(Text(<<"a">>), Num(0), Num(1), Text(turtle)),
      Body(Text(<<" ", "b", " ">>), Num(60), Num(12), Text(<<"c", "a", "t">>)),
      Body(Text(a25), Num(120), Num(5), Absent),
      Body(Absent, Num(30), Num(1), Text(turtle)),
      Body(Num(7), Num(30), Num(1), Text(turtle)),
      Body(Text(<< >>), Num(30), Num(1), Text(turtle)),
      Body(Text(<<" ", " ">>), Num(30), Num(1), Text(turtle)),
      Body(Text(<<"a">>), Absent, Num(1), Text(turtle)),
      Body(Text(<<"a">>), Text(<<"5", "0">>), Num(1), Text(turtle)),
      Body(Text(<<"a">>), Num(-1), Num(1), Text(turtle)),
      Body(Text(<<"a">>), Num(121), Num(1), Text(turtle)),
      Body(Text(<<"a">>), Num(30), Absent, Text(turtle)),
      Body(Text(<<"a">>), Num(30), Num(0), Text(turtle)),
      Body(Text(<<"a">>), Num(30), Num(13), Text(turtle)) }

InitServer ==
    /\ GameState = GameState0
    /\ screens = [NoScreens EXCEPT !.start = TRUE]
    /\ isStartingGame = FALSE
    /\ tasks = << >>
    /\ timers = << >>
    /\ now = ServerT0
    /\ frame = "idle"
    /\ pausedMs = 0
    /\ hops = 0
    /\ \E n \in StoreSizes :
         /\ data = StoreOf(n)
         /\ accepted = { StoreOf(n).entries[i] : i \in 1..n }
    /\ response = NoResponse

game == <<GameState, screens, isStartingGame, tasks, timers, frame, pausedMs, hops>>

\* the entries stored since the server was first observed
Posted == { e \in accepted : e.created_at >= ServerT0 }

\* a client posts req, d ms after the previous request; the file is written
Post(req, d) ==
    /\ Cardinality(Posted) < MaxPosts
    /\ now + d <= ServerT0 + MaxServerMs
    /\ now' = now + d
    /\ \E r \in {postLeaderboard(data, req, now', TRUE)} :
           /\ data' = r.file
           /\ response' = r.res
           /\ accepted' = accepted \cup r.stored
    /\ UNCHANGED game

PostScore == \E req \in Requests, d \in {0, 1} : Post(req, d)

\* a client fetches the board
GetBoard ==
    /\ response' = getLeaderboard(data)
    /\ UNCHANGED <<data, accepted, now>>
    /\ UNCHANGED game

NextServer == PostScore \/ GetBoard

SpecServer == InitServer /\ [][NextServer]_vars

\* ------------------------------------------------------------------------
\* Properties
\* ------------------------------------------------------------------------
\* a step that lowers livesRemaining
Lost == GameState'.livesRemaining < GameState.livesRemaining

\* C1: right after a tick's occupancy resolution (updateLavaPatterns has
\* run, the callback is at its next statement), lavaTiles holds no safe
\* island and no collectible.
C1_ResolvedOccupancyAvoidsIslandsAndCollectibles ==
    frame = "hop" =>
        /\ GameState.lavaTiles \cap GameState.safeIslands = {}
        /\ GameState.lavaTiles \cap GameState.collectibleTiles = {}

\* C2: from a state in which the player is invincible, or hopping, or the
\* countdown runs, no step lowers livesRemaining.
C2_GatedStatesLoseNoLife ==
    [][(GameState.invincible \/ GameState.isHopping \/ GameState.isCountingDown) => ~Lost]_vars

\* a tick's collision check has just run on an invincible player standing
\* on a hazard cell
C2_InvincibleOnHazard ==
    /\ frame = "hop"
    /\ GameState.invincible
    /\ ~GameState.isHopping
    /\ GameState.playerPosition \in GameState.lavaTiles
    /\ GameState.playerPosition \notin GameState.safeIslands
    /\ GameState.livesRemaining > 0

\* C3: from a state in which the player's cell is a safe island, no step (no
\* tick, no landing) lowers livesRemaining.
C3_OnSafeIslandLoseNoLife ==
    [][GameState.playerPosition \in GameState.safeIslands => ~Lost]_vars

\* a tick's collision check has just run on a vulnerable player who stands
\* on a safe island that a pattern covers
C3_OnCoveredIsland ==
    /\ frame = "hop"
    /\ GameState.isPlaying
    /\ ~GameState.invincible /\ ~GameState.isHopping /\ ~GameState.isCountingDown
    /\ GameState.playerPosition \in GameState.safeIslands
    /\ GameState.playerPosition \in GameState.lavaTiles
    /\ hops > 0

\* what a step that takes a life does
C4_HitStep ==
    Lost =>
        /\ GameState'.livesRemaining = GameState.livesRemaining - 1
        /\ GameState'.livesRemaining > 0 =>
              /\ GameState'.playerPosition = <<6, 14>>
              /\ GameState'.isPlaying
              /\ ~GameState'.isGameOver
        /\ GameState'.livesRemaining = 0 =>
              /\ GameState'.isGameOver
              /\ ~GameState'.isPlaying

\* C4: a level starts with 3 lives and lives stay in 0..3; a hit takes
\* exactly one life; a hit that leaves a life (the first, the second)
\* respawns the player at (6,14) and leaves the game playing and not over;
\* the hit that takes the last life (the third) ends the game: isGameOver,
\* not isPlaying.
C4_ThreeLives ==
    /\ [](GameState.livesRemaining \in 0..3)
    /\ [](hops = 0 /\ GameState.isPlaying => GameState.livesRemaining = 3)
    /\ [](GameState.isGameOver <=> GameState.livesRemaining = 0)
    /\ [][C4_HitStep]_vars

\* the third hit of a level has ended the game
C4_GameOverAfterThreeHits ==
    /\ GameState.isGameOver
    /\ ~GameState.isPlaying
    /\ GameState.livesRemaining = 0
    /\ screens.gameOver

\* the step that picks up the last collectible
C5_LastPickup ==
    (Cardinality(GameState.collectibleTiles) = 1 /\ GameState'.collectibleTiles = {}) =>
        /\ GameState'.totalScore =
              GameState.totalScore
              + (IF GameState.currentLevelScore >= 1 THEN GameState.currentLevelScore ELSE 1)
        /\ Len(timers') = Len(timers) + 1

\* the step on which the level-complete timer fires
C5_TimerFires ==
    Len(timers') < Len(timers) =>
        /\ ~GameState'.isPlaying
        /\ IF GameState.currentLevel < 12
           THEN screens'.levelComplete /\ ~screens'.win
           ELSE screens'.win /\ ~screens'.levelComplete

\* C5: the landing that picks up the last collectible adds exactly
\* max(1, currentLevelScore) to totalScore and schedules the level's end;
\* when that timer fires the game stops playing and shows the
\* level-complete screen below level 12, the win screen (and not the
\* level-complete screen, which offers the next level) on level 12.
C5_LastCollectibleEndsLevel ==
    /\ [][C5_LastPickup]_vars
    /\ [][C5_TimerFires]_vars
    /\ [](screens.win => GameState.currentLevel = 12)
    /\ [](screens.levelComplete => GameState.currentLevel < 12)

\* level 12 was completed at full score and the win screen is shown
C5_WonTheGame ==
    /\ screens.win
    /\ ~screens.levelComplete
    /\ GameState.collectibleTiles = {}
    /\ GameState.totalScore = 120

\* what a move request in direction d does
C6_Request(d) ==
    LET target == <<GameState.playerPosition[1] + d[1], GameState.playerPosition[2] + d[2]>>
        rejected == \/ GameState.isHopping
                    \/ GameState.isPaused
                    \/ ~GameState.isPlaying
                    \/ GameState.isCountingDown
                    \/ target \notin (0..11) \X (0..15)
    IN  IF rejected
        THEN GameState' = GameState
        ELSE /\ GameState'.playerPosition = target
             /\ GameState'.isHopping
             /\ GameState' = [GameState EXCEPT !.playerPosition = target,
                                               !.isHopping = TRUE,
                                               !.hopStartTime = now]

\* C6: a move request is a no-op when a hop is in progress, the game is
\* paused, not playing or counting down, or the target is outside the grid;
\* any other request sets playerPosition to the target and isHopping to
\* true (and starts the hop clock), and changes nothing else.
C6_MoveRequests ==
    [][\A d \in MoveDirs : MovePlayer(d) => C6_Request(d)]_vars

\* the player has hopped to the bottom row, from where a request downwards
\* targets a cell outside the grid
C6_AtBottomEdge ==
    /\ GameState.isPlaying
    /\ ~GameState.isHopping
    /\ GameState.playerPosition = <<6, 15>>
    /\ hops > 0
    /\ hops < HopBudget(GameState.currentLevel)

\* round(10 * (1 - c / 20000)) for c = clamp(t - 10000, 0, 20000): the
\* integer s with s - 1/2 <= 10 * (20000 - c) / 20000 < s + 1/2
C7_Rounded(t) ==
    LET c == IF t - 10000 < 0 THEN 0 ELSE IF t - 10000 > 20000 THEN 20000 ELSE t - 10000
    IN  CHOOSE s \in 0..10 :
            /\ (2 * s - 1) * 20000 <= 20 * (20000 - c)
            /\ 20 * (20000 - c) < (2 * s + 1) * 20000

\* the score as the stated function of the time since the level start
C7_Value ==
    LET t == now - GameState.levelStartTime
        score == GameState.currentLevelScore
    IN  /\ t <= 10000 => score = 10
        /\ t > 10000 => score = (IF C7_Rounded(t) >= 1 THEN C7_Rounded(t) ELSE 1)
        /\ score >= 1
        /\ score <= 10

C8_PausedTimeDoesNotDecay ==
    (frame = "idle" /\ GameState.isPlaying /\ ~GameState.isPaused /\ ~GameState.isCountingDown)
        => GameState.currentLevelScore = ScoreAt(PlayedAt(now))

\* C9: safeIslands and collectibleTiles are disjoint; every collectible is
\* a grid cell outside the spawn box x in 5..7, z in 13..15; and there are
\* at most POINTS_PER_LEVEL[level - 1] (0-based) of them.
C9_CollectiblePlacement ==
    /\ GameState.safeIslands \cap GameState.collectibleTiles = {}
    /\ \A c \in GameState.collectibleTiles :
          /\ c[1] \in 0..11 /\ c[2] \in 0..15
          /\ ~(c[1] \in 5..7 /\ c[2] \in 13..15)
    /\ Cardinality(GameState.collectibleTiles) <= POINTS_PER_LEVEL[GameState.currentLevel]

\* a level was laid out with its full number of collectibles although the
\* generator also drew a safe-island cell and a cell twice
C9_FullLayout ==
    /\ GameState.isPlaying
    /\ hops = 0
    /\ <<1, 1>> \in GameState.safeIslands
    /\ Cardinality(GameState.collectibleTiles) = POINTS_PER_LEVEL[GameState.currentLevel]

\* C10: whatever the pattern kind, the time and the pattern's state, the
\* resolver adds only coordinates with 0 <= x < 12 and 0 <= z < 16, and a
\* snake's head and body stay on such coordinates.
C10_PatternsStayInGrid ==
    /\ \A c \in GameState.lavaTiles : c[1] >= 0 /\ c[1] < 12 /\ c[2] >= 0 /\ c[2] < 16
    /\ \A i \in 1..Len(GameState.lavaPatterns) :
          GameState.lavaPatterns[i].type = "snake" =>
             /\ GameState.lavaPatterns[i].headX \in 0..11
             /\ GameState.lavaPatterns[i].headZ \in 0..15
             /\ \A k \in 1..Len(GameState.lavaPatterns[i].positions) :
                   /\ GameState.lavaPatterns[i].positions[k].x \in 0..11
                   /\ GameState.lavaPatterns[i].positions[k].z \in 0..15

\* the snake has bounced off the right wall: its head is on the last column
\* and it heads left
C10_SnakeBounced ==
    \E i \in 1..Len(GameState.lavaPatterns) :
        /\ GameState.lavaPatterns[i].type = "snake"
        /\ GameState.lavaPatterns[i].headX = 11
        /\ GameState.lavaPatterns[i].direction = 2
        /\ <<11, GameState.lavaPatterns[i].headZ>> \in GameState.lavaTiles

\* the five fields that movement and hazard collision act on
C11_Fields ==
    <<GameState.playerPosition, GameState.livesRemaining, GameState.collectibleTiles,
      GameState.lavaTiles, GameState.currentLevelScore>>

\* a step of a frame tick, or a movement / pause input
C11_TickOrInput ==
    \/ AnimateBegin
    \/ FrameLava
    \/ FrameHop
    \/ FrameLand
    \/ FrameScore
    \/ Move
    \/ PressEscape

\* C11: in a state where isPlaying is false, or isPaused is true, or
\* isCountingDown is true, no step of a frame tick and no movement or pause
\* input changes playerPosition, livesRemaining, collectibleTiles, lavaTiles
\* or currentLevelScore.
C11_NotPlayingFreezesTheBoard ==
    [][ ( /\ ~GameState.isPlaying \/ GameState.isPaused \/ GameState.isCountingDown
          /\ C11_TickOrInput )
        => C11_Fields' = C11_Fields ]_vars

\* the game was paused with the board populated, and stayed paused over a
\* break during which frames kept coming
C11_PausedOverABreak ==
    /\ GameState.isPlaying
    /\ GameState.isPaused
    /\ pausedMs > 0
    /\ GameState.lavaTiles /= {}
    /\ GameState.collectibleTiles /= {}
    /\ GameState.playerPosition /= Spawn

\* the hop in progress ends in this frame on a collectible that the hazard
\* occupancy covers
C12_LandsOnCoveredCollectible ==
    /\ HopLands(GameState, now)
    /\ GameState.playerPosition \in GameState.collectibleTiles
    /\ GameState.playerPosition \in GameState.lavaTiles

\* C12: when a hop ends on a collectible that is also in lavaTiles, the
\* pickup step removes the collectible (and adds the level score to
\* totalScore and schedules levelComplete if it was the last one) with no
\* life lost and no game over yet; the landing collision check comes after
\* it, when the player's cell is no longer a collectible.
C12_PickupBeforeCollision ==
    [][ /\ (FrameHop /\ C12_LandsOnCoveredCollectible)
           => /\ GameState'.collectibleTiles =
                    GameState.collectibleTiles \ {GameState.playerPosition}
              /\ GameState'.livesRemaining = GameState.livesRemaining
              /\ GameState'.isGameOver = GameState.isGameOver
              /\ GameState'.playerPosition = GameState.playerPosition
              /\ frame' = "land"
              /\ IF GameState'.collectibleTiles = {}
                 THEN /\ GameState'.totalScore =
                            GameState.totalScore + Max(1, GameState.currentLevelScore)
                      /\ timers' = Append(timers, now + LEVEL_COMPLETE_DELAY)
                 ELSE /\ GameState'.totalScore = GameState.totalScore
                      /\ timers' = timers
        /\ FrameLand
           => /\ GameState.playerPosition \notin GameState.collectibleTiles
              /\ GameState'.collectibleTiles = GameState.collectibleTiles
              /\ GameState'.totalScore = GameState.totalScore ]_vars

\* the last collectible was picked up, and the level score added, in the
\* frame in which the landing on it cost the last life
C12_FatalLandingOnLastCollectible ==
    /\ frame = "score"
    /\ GameState.isGameOver
    /\ GameState.livesRemaining = 0
    /\ GameState.collectibleTiles = {}
    /\ timers /= << >>
    /\ timers[Len(timers)] = now + LEVEL_COMPLETE_DELAY
    /\ GameState.totalScore > maxLevelScore * (GameState.currentLevel - 1)

\* the cells that the active patterns of gs cover at `time`
C13_Occupancy(gs, time) ==
    UNION { PatternCells(gs.lavaPatterns[i], time, baseSpeedOf(gs.currentLevel),
                         gs.safeIslands, gs.collectibleTiles)
            : i \in 1..Len(gs.lavaPatterns) }

\* C13: in every tick of play the first step replaces lavaTiles by the cells
\* that the active patterns cover at the time of this tick, whether a hop is
\* in progress or not, and a life lost in that step is lost on a cell of the
\* new set; the hop step and the landing check that follow leave lavaTiles
\* as computed in this tick, and a life lost on landing is lost on a cell of
\* it.
C13_OccupancyIsOfThisTick ==
    [][ /\ FrameLava
           => /\ GameState'.lavaTiles = C13_Occupancy(GameState', now)
              /\ GameState'.livesRemaining < GameState.livesRemaining
                 => GameState.playerPosition \in GameState'.lavaTiles
        /\ FrameHop
           => /\ GameState'.lavaTiles = GameState.lavaTiles
              /\ GameState'.lavaPatterns = GameState.lavaPatterns
        /\ FrameLand
           => /\ GameState'.lavaTiles = GameState.lavaTiles
              /\ GameState'.livesRemaining < GameState.livesRemaining
                 => GameState.playerPosition \in GameState.lavaTiles ]_vars

\* a hop ends on a cell that no pattern covered when the hop started and
\* that is covered now: the occupancy was recomputed while the hop was in
\* progress and the landing check is about to read it
C13_LandsOnFreshHazard ==
    /\ frame = "land"
    /\ ~GameState.invincible
    /\ GameState.playerPosition \notin GameState.safeIslands
    /\ GameState.playerPosition \in GameState.lavaTiles
    /\ GameState.playerPosition \notin C13_Occupancy(GameState, GameState.hopStartTime)
    /\ GameState.lavaTiles = C13_Occupancy(GameState, now)

\* a step in which a countdown ends and initializeLevel runs
C14_LevelStarts ==
    \E i \in 1..Len(tasks) : tasks[i].at = "go" /\ ResumeTask(i)

\* C14: whenever a countdown ends and initializeLevel has run, isPlaying is
\* true, the player is at the spawn cell (6,14), invincible is false, no hop
\* is in progress, and safeIslands and collectibleTiles hold the layout
\* generated for the level while lavaTiles is empty until the first tick.
C14_LevelStartsFromSpawn ==
    [][ C14_LevelStarts
        => /\ GameState'.isPlaying
           /\ GameState'.playerPosition = <<6, 14>>
           /\ ~GameState'.invincible
           /\ ~GameState'.isHopping
           /\ GameState'.lavaTiles = {}
           /\ \E rnd \in RandomSources :
                LET safe == generateSafeIslands(GameState'.currentLevel, rnd.islands)
                IN  /\ GameState'.safeIslands = safe
                    /\ GameState'.collectibleTiles =
                          spawnCollectibles(GameState'.currentLevel, safe, rnd.collect) ]_vars

\* a step that runs nextLevel: the next-level button, or Enter / Space while
\* the level-complete screen is the first visible one
C15_NextLevelStep ==
    \/ ClickNextLevel
    \/ /\ PressEnter
       /\ ~screens.start /\ ~screens.gameOver /\ screens.levelComplete
       /\ ~TutorialPending(tasks)

\* a step in which a hit costs a life and the player is respawned
C15_RespawnStep ==
    /\ FrameLava \/ FrameLand
    /\ GameState'.livesRemaining < GameState.livesRemaining
    /\ ~GameState'.isGameOver

\* C15: nextLevel adds one to currentLevel, sets livesRemaining to 3, empties
\* safeIslands, collectibleTiles and lavaTiles and suspends on its sleep,
\* after which it enters the countdown; a respawn after a hit takes exactly
\* one life, puts the player on the spawn cell and leaves currentLevel,
\* totalScore, safeIslands and collectibleTiles as they are.
C15_NextLevelAndRespawn ==
    [][ /\ C15_NextLevelStep
           => /\ GameState'.currentLevel = GameState.currentLevel + 1
              /\ GameState'.livesRemaining = 3
              /\ GameState'.safeIslands = {}
              /\ GameState'.collectibleTiles = {}
              /\ GameState'.lavaTiles = {}
              /\ tasks' = Append(tasks, Task("nextLevel", "sleep", now + 1000))
        /\ \A i \in 1..Len(tasks) :
              (tasks[i].at = "sleep" /\ ResumeTask(i))
              => /\ GameState'.isCountingDown
                 /\ tasks'[i] = Task("nextLevel", "cd3", now + 800)
        /\ C15_RespawnStep
           => /\ GameState'.livesRemaining = GameState.livesRemaining - 1
              /\ GameState'.playerPosition = Spawn
              /\ GameState'.currentLevel = GameState.currentLevel
              /\ GameState'.totalScore = GameState.totalScore
              /\ GameState'.safeIslands = GameState.safeIslands
              /\ GameState'.collectibleTiles = GameState.collectibleTiles ]_vars

\* nextLevel has just run after a level in which the player was hit and
\* respawned: the lives are back at 3 while the invincibility of the hit is
\* still on
C15_NextLevelAfterAHit ==
    /\ \E i \in 1..Len(tasks) : tasks[i].fn = "nextLevel" /\ tasks[i].at = "sleep"
    /\ GameState.invincible
    /\ GameState.livesRemaining = 3
    /\ GameState.currentLevel > 1
    /\ GameState.collectibleTiles = {}

\* C16: currentLevel is within 1..12 in every reachable state; when
\* levelComplete runs on level 12 it shows the win screen and not the
\* level-complete screen; and nextLevel never runs when currentLevel is 12.
C16_LevelStaysInRange ==
    /\ [](GameState.currentLevel \in 1..12)
    /\ [][ /\ (LevelCompleteTimer /\ GameState.currentLevel = 12)
              => /\ screens'.win
                 /\ screens'.levelComplete = screens.levelComplete
                 /\ ~GameState'.isPlaying
           /\ C15_NextLevelStep => GameState.currentLevel < 12 ]_vars

\* level 12 was reached through nextLevel and completed: the win screen is
\* up and no button that runs nextLevel is offered
C16_WonAfterNextLevel ==
    /\ GameState.currentLevel = 12
    /\ screens.win
    /\ ~screens.levelComplete
    /\ ~GameState.isPlaying
    /\ GameState.levelStartTime > T0

\* a countdown is running: some activation is inside runCountdown
C17_InCountdown ==
    \E i \in 1..Len(tasks) : tasks[i].at \in {"cd3", "cd2", "cd1", "go"}

\* C17: isPlaying changes from false to true only in the step in which a
\* countdown ends and initializeLevel runs; that step comes once per
\* countdown, ends the activation and leaves isCountingDown false; and
\* while a countdown is running no move request is accepted and no life is
\* lost.
C17_PlayBeginsAfterCountdown ==
    [][ /\ (~GameState.isPlaying /\ GameState'.isPlaying) => C14_LevelStarts
        /\ C14_LevelStarts
           => /\ GameState'.isPlaying
              /\ ~GameState'.isCountingDown
              /\ Len(tasks') = Len(tasks) - 1
        /\ C17_InCountdown
           => /\ Move => GameState' = GameState
              /\ GameState'.livesRemaining >= GameState.livesRemaining ]_vars

\* a step in which startGame is accepted: from the start screen when no
\* start is in progress, or through restartGame from the game-over or the
\* win screen; by button or by Enter / Space
C18_StartGameStep ==
    \/ ClickStart /\ ~isStartingGame
    \/ ClickRetry
    \/ ClickPlayAgain
    \/ /\ PressEnter
       /\ \/ screens.start /\ ~isStartingGame
          \/ ~screens.start /\ screens.gameOver
          \/ ~screens.start /\ ~screens.levelComplete /\ screens.win

\* C18: right after an accepted startGame currentLevel is 1, totalScore is
\* 0, livesRemaining is 3, isGameOver, isPlaying, isPaused, isHopping and
\* invincible are false, and safeIslands, collectibleTiles and lavaTiles
\* are empty.
C18_StartGameResetsTheSession ==
    [][ C18_StartGameStep
        => /\ GameState'.currentLevel = 1
           /\ GameState'.totalScore = 0
           /\ GameState'.livesRemaining = 3
           /\ ~GameState'.isGameOver
           /\ ~GameState'.isPlaying
           /\ ~GameState'.isPaused
           /\ ~GameState'.isHopping
           /\ ~GameState'.invincible
           /\ GameState'.safeIslands = {}
           /\ GameState'.collectibleTiles = {}
           /\ GameState'.lavaTiles = {} ]_vars

\* C19: once the resolver has run at the current time, running it again at
\* the same time, with the level, the safe islands, the collectibles and
\* the pattern state as the first run left them, gives the same lavaTiles
\* and leaves the pattern state (the snake included) as it is, whatever the
\* random draws of the second run.
C19_ResolverIsIdempotent ==
    now > 0 =>
        \A turn \in BOOLEAN, side \in BOOLEAN :
            LET again == ResolveOccupancy(GameState, now, turn, side)
            IN  /\ again.lavaTiles = GameState.lavaTiles
                /\ again.lavaPatterns = GameState.lavaPatterns

\* the snake has moved in the evaluation at the current time, after a turn,
\* and its body is on the grid
C19_SnakeMovedNow ==
    /\ now > 0
    /\ HasSnake(GameState)
    /\ GameState.lavaPatterns[1].lastMoveTime = now
    /\ GameState.lavaPatterns[1].direction /= 0
    /\ Cardinality(GameState.lavaTiles) = SnakeLength

\* the checkerboard pulse is the active pattern
C20_Checkerboard == GameState.lavaPatterns[1].type = "checkerboard_pulse"

\* floor(t / I) mod 2 for the active pattern's interval I
C20_Phase(t) == (t \div GameState.lavaPatterns[1].interval) % 2

\* C20: with the checkerboard pulse of interval I evaluated at time t, the
\* phase is floor(t / I) mod 2: every hazardous cell has (x+z) mod 2 = phase,
\* and every cell of the playable rows with (x+z) mod 2 = phase that is
\* neither a safe island nor a collectible is hazardous; with I = 1500 the
\* phase is 0 at t = 0 and 1 at t = 1500; and an evaluation I ms after
\* another one gives the cells of the other parity.
C20_CheckerboardPhase ==
    /\ [](C20_Checkerboard
          => /\ \A c \in GameState.lavaTiles : (c[1] + c[2]) % 2 = C20_Phase(now)
             /\ \A c \in (0..11) \X (0..13) :
                   ( /\ (c[1] + c[2]) % 2 = C20_Phase(now)
                     /\ c \notin GameState.safeIslands
                     /\ c \notin GameState.collectibleTiles )
                   => c \in GameState.lavaTiles
             /\ GameState.lavaPatterns[1].interval = 1500
                => /\ now = 0 => C20_Phase(now) = 0 /\ GameState.lavaTiles /= {}
                   /\ now = 1500 => C20_Phase(now) = 1 /\ GameState.lavaTiles /= {})
    /\ [][ (C20_Checkerboard /\ now' = now + GameState.lavaPatterns[1].interval)
           => /\ GameState'.lavaTiles /= {}
              /\ \A c \in GameState'.lavaTiles :
                    (c[1] + c[2]) % 2 = 1 - C20_Phase(now) ]_vars

\* the pattern of addStandardRedFloor evaluated at t = 1500 on a layout with
\* collectibles: the odd cells are hazardous, the even ones are not
C20_OddPhaseAt1500 ==
    /\ C20_Checkerboard
    /\ GameState.lavaPatterns[1].interval = 1500
    /\ now = 1500
    /\ GameState.collectibleTiles /= {}
    /\ \E c \in GameState.lavaTiles : (c[1] + c[2]) % 2 = 1
    /\ \E c \in (0..11) \X (0..13) :
          /\ (c[1] + c[2]) % 2 = 0
          /\ c \notin GameState.safeIslands
          /\ c \notin GameState.collectibleTiles
          /\ c \notin GameState.lavaTiles

\* the gray pulse is the active pattern
C21_GrayPulse == GameState.lavaPatterns[1].type = "gray_pulse"

\* the cells of a set of rows that are neither safe islands nor collectibles
C21_Gray(rows) ==
    { c \in (0..(WIDTH - 1)) \X rows :
        c \notin GameState.safeIslands /\ c \notin GameState.collectibleTiles }

C22_OneToThreePatterns ==
    GameState.isPlaying
    => Len(GameState.lavaPatterns) >= 1 /\ Len(GameState.lavaPatterns) <= 3

\* the kinds of the pattern instances of each level, in the order of the script
C22_Script ==
    << <<"horizontal", "horizontal">>,
       <<"horizontal", "horizontal", "vertical">>,
       <<"horizontal", "horizontal", "vertical", "vertical">>,
       <<"rolling_x", "rolling_x", "rolling_x">>,
       <<"row_march", "horizontal">>,
       <<"row_march", "column_march">>,
       <<"gray_pulse">>,
       <<"rotating_cross", "horizontal", "horizontal">>,
       <<"spiral", "vertical", "vertical">>,
       <<"gray_pulse", "horizontal", "horizontal">>,
       <<"row_march", "column_march", "horizontal">>,
       <<"rotating_cross", "diagonal_sweep", "horizontal", "horizontal",
         "vertical", "vertical">> >>

\* C22 (amended): the pattern list of a level in play is the level's fixed
\* script: it has between 1 and 6 instances (1 to 3 on every level but level
\* 3, which has 4, and level 12, which has 6), of the kinds and in the order
\* the script of the level names.
C22_FixedScriptOfOneToSix ==
    GameState.isPlaying
    => LET L == GameState.currentLevel
           n == Len(GameState.lavaPatterns)
       IN  /\ n >= 1 /\ n <= 6
           /\ n > 3 <=> L \in {3, 12}
           /\ L = 3 => n = 4
           /\ L = 12 => n = 6
           /\ n = Len(C22_Script[L])
           /\ \A i \in 1..n : GameState.lavaPatterns[i].type = C22_Script[L][i]

\* the last level in play, its six pattern instances generated this session
C22_LastLevelHasSix ==
    /\ GameState.isPlaying
    /\ GameState.currentLevel = TOTAL
    /\ now > T0
    /\ Len(GameState.lavaPatterns) = 6

\* the 3x3 starting zone around the spawn cell
C23_Zone == (5..7) \X (13..15)

\* C23: while a level is in play the whole starting zone (x in 5..7, z in
\* 13..15) is in safeIslands, so the spawn cell (6,14) is safe; and no step
\* takes a life from a player who stands in the zone, which is where a level
\* start and a respawn put the player.
C23_StartingZoneIsSafe ==
    /\ [](GameState.isPlaying
          => /\ C23_Zone \subseteq GameState.safeIslands
             /\ Spawn \in GameState.safeIslands)
    /\ [][ /\ (GameState.isPlaying /\ GameState.playerPosition \in C23_Zone) => ~Lost
           /\ (GameState'.isPlaying /\ ~GameState.isPlaying)
                 => GameState'.playerPosition = Spawn
           /\ Lost /\ ~GameState'.isGameOver
                 => GameState'.playerPosition = Spawn ]_vars

\* a respawned player, the invincibility over, stands on the spawn cell
\* while hazards are on the board
C23_RespawnedOnSpawn ==
    /\ GameState.isPlaying
    /\ ~GameState.isPaused
    /\ GameState.livesRemaining < START_LIVES
    /\ GameState.playerPosition = Spawn
    /\ ~GameState.invincible
    /\ GameState.lavaTiles /= {}
    /\ frame = "idle"

\* a step inside or at the ends of the invincibility window
C24_WindowStep ==
    /\ (Lost /\ ~GameState'.isGameOver)
          => /\ GameState'.invincible
             /\ GameState'.invincibleUntil = now + INVINCIBLE_MS
             /\ now' = now
    /\ Lost => (~GameState.invincible /\ now > GameState.invincibleUntil)
    /\ (now' /= now)
          => /\ (now' > GameState.invincibleUntil) => ~GameState'.invincible
             /\ (GameState.invincible /\ now' <= GameState.invincibleUntil)
                   => GameState'.invincible

\* C24: a hit that is not fatal makes the player invincible until 2500 ms
\* of wall-clock time after the hit; no life is lost before that deadline;
\* a frame that comes after the deadline clears invincible and one that
\* comes before leaves it set, paused or not; and invincibility always
\* eventually ends.
C24_InvincibilityWindow ==
    /\ [][C24_WindowStep]_vars
    /\ (GameState.invincible ~> ~GameState.invincible)

\* the game was paused while the player was invincible, and a frame that
\* came after the deadline, the game still paused, has cleared invincible
C24_ClearedWhilePaused ==
    /\ GameState.isPlaying
    /\ GameState.isPaused
    /\ GameState.livesRemaining < START_LIVES
    /\ ~GameState.invincible
    /\ GameState.invincibleUntil > T0
    /\ now > GameState.invincibleUntil
    /\ pausedMs >= INVINCIBLE_MS
    /\ now - pausedMs < GameState.invincibleUntil - INVINCIBLE_MS + PauseWindow

\* the last request was a GET /api/leaderboard
C25_Fetched == response.status = 200 /\ ~response.success

\* a ranks ahead of b: a higher score, or the same score earlier
C25_Ahead(a, b) ==
    \/ a.score > b.score
    \/ a.score = b.score /\ a.created_at < b.created_at

\* the stored entries that the response leaves out
C25_Omitted ==
    { data.entries[i] : i \in 1..Len(data.entries) }
    \ { response.entries[i] : i \in 1..Len(response.entries) }

\* C25: GET /api/leaderboard returns at most 10 entries, all of them stored
\* entries (all of the stored ones when there are at most 10), ordered by
\* score descending and, among equal scores, earliest created_at first; and
\* no stored entry that is left out ranks ahead of a returned one.
C25_TopTenInOrder ==
    C25_Fetched
    => LET top == response.entries
       IN  /\ Len(top) <= 10
           /\ Len(top) = Min(10, Len(data.entries))
           /\ \A i \in 1..Len(top) : \E k \in 1..Len(data.entries) : data.entries[k] = top[i]
           /\ \A i, j \in 1..Len(top) : i < j => ~C25_Ahead(top[j], top[i])
           /\ \A e \in C25_Omitted : \A i \in 1..Len(top) : ~C25_Ahead(e, top[i])

\* a board of ten entries was returned and an entry posted since, with the
\* score of the last returned entry but a later timestamp, is left out
C25_TieLeftOut ==
    /\ C25_Fetched
    /\ Len(response.entries) = 10
    /\ \E e \in C25_Omitted :
          /\ e \in Posted
          /\ e.score = response.entries[10].score
          /\ e.created_at > response.entries[10].created_at

\* the entries in the file
C26_Stored == { data.entries[i] : i \in 1..Len(data.entries) }

\* C26: the file holds at most 100 entries, each of them a submitted entry
\* and no entry twice; all the submitted entries while there are at most
\* 100; and a submitted entry is missing only if 100 stored entries have a
\* score greater than or equal to its own.
C26_BestHundredKept ==
    /\ Len(data.entries) <= 100
    /\ Len(data.entries) = Min(100, Cardinality(accepted))
    /\ Cardinality(C26_Stored) = Len(data.entries)
    /\ C26_Stored \subseteq accepted
    /\ \A e \in accepted \ C26_Stored :
          Cardinality({ k \in 1..Len(data.entries) : data.entries[k].score >= e.score }) >= 100

\* a submission took the first rank of a full file and an entry that was in
\* the file before is gone
C26_OldEntryDisplaced ==
    /\ response.success
    /\ response.rank = 1
    /\ Len(data.entries) = 100
    /\ \E e \in accepted \ C26_Stored :
          /\ e.created_at < ServerT0
          /\ e.score < data.entries[1].score

\* a request that the validation has to refuse: the name missing, not a
\* string or blank, the score not a number in 0..120, the level not a number
\* in 1..12
C27_Refused(req) ==
    \/ req.name.t /= "string"
    \/ \A i \in 1..Len(req.name.s) : req.name.s[i] = " "
    \/ req.score.t /= "number"
    \/ req.score.n \notin 0..120
    \/ req.level.t /= "number"
    \/ req.level.n \notin 1..12

C27_WellFormed(e) ==
    /\ Len(e.name) \in 1..20
    /\ e.score \in 0..120
    /\ e.level \in 1..12
    /\ e.character \in validCharacters

\* C27: in every state of the server a refused request is answered with an
\* error and leaves entries and nextId as they are; the entry that the
\* handler builds for a request that is not refused (here into an empty
\* file) is well formed and has the request's character, or 'chicken' when
\* that is not one of the four; and every entry in the file has a name of
\* 1..20 characters, a score in 0..120, a level in 1..12 and one of the four
\* characters.
C27_ValidationGuardsTheStore ==
    /\ \A req \in Requests :
          LET r == postLeaderboard(data, req, now, TRUE)
          IN  IF C27_Refused(req)
              THEN /\ r.res.status = 400
                   /\ r.res.error /= ""
                   /\ ~r.res.success
                   /\ r.file = data
                   /\ r.stored = {}
              ELSE LET first == postLeaderboard(EmptyData, req, now, TRUE)
                   IN  /\ first.res.success
                       /\ first.stored /= {}
                       /\ \A e \in first.stored :
                             /\ C27_WellFormed(e)
                             /\ e.character = IF req.character.t = "string"
                                                 /\ req.character.s \in validCharacters
                                              THEN req.character.s ELSE chicken
    /\ \A i \in 1..Len(data.entries) : C27_WellFormed(data.entries[i])

\* a request was refused after the submission of the name " b " with an
\* unknown character was stored as "b" with 'chicken'
C27_RefusedAfterSanitizedEntry ==
    /\ response.status = 400
    /\ response.error = "Invalid level"
    /\ \E e \in C26_Stored :
          e.created_at >= ServerT0 /\ e.name = <<"b">> /\ e.character = chicken

\* C28: the rank answered to a successful submission is between 1 and 100
\* and is the position of the submitted entry in the stored list, which is
\* in descending order of score.
C28_RankIsPositionInStore ==
    response.success =>
        /\ response.rank \in 1..100
        /\ response.rank <= Len(data.entries)
        /\ data.entries[response.rank].id = response.id
        /\ \A i \in 1..(Len(data.entries) - 1) :
              data.entries[i].score >= data.entries[i + 1].score

\* the cells of a bar at the instant `time` on level L
C29_BarCells(p, time, L) ==
    IF p.type = "horizontal"
    THEN updateHorizontalPattern(p, time, baseSpeedOf(L))
    ELSE updateVerticalPattern(p, time, baseSpeedOf(L))

\* a bar has as many cells as it is wide (long), all in its row (column)
C29_BarIsWhole(p, time, L) ==
    IF p.type = "horizontal"
    THEN /\ Cardinality(C29_BarCells(p, time, L)) = p.width
         /\ \A c \in C29_BarCells(p, time, L) : c[2] = p.row /\ c[1] \in 0..(WIDTH - 1)
    ELSE /\ Cardinality(C29_BarCells(p, time, L)) = p.height
         /\ \A c \in C29_BarCells(p, time, L) : c[1] = p.col /\ c[2] \in 0..(HEIGHT - 3)

\* the bars of the script of level L
C29_ScriptBars(L) ==
    UNION { { generateLavaPatterns(L, rnd.offsets)[i] :
                i \in { k \in 1..Len(generateLavaPatterns(L, rnd.offsets)) :
                          generateLavaPatterns(L, rnd.offsets)[k].type
                             \in {"horizontal", "vertical"} } }
            : rnd \in RandomSources }

C30_WithinLevel == tasks' = tasks

C30_SetsStep ==
    C30_WithinLevel =>
       /\ GameState'.safeIslands = GameState.safeIslands
       /\ GameState'.collectibleTiles \subseteq GameState.collectibleTiles
       /\ (GameState'.collectibleTiles /= GameState.collectibleTiles =>
             /\ frame = "hop"
             /\ GameState.isHopping
             /\ ~GameState'.isHopping
             /\ GameState.collectibleTiles \ GameState'.collectibleTiles
                   = {GameState.playerPosition})

\* C30: a step that is not a level initialization, a level transition or a
\* restart (a frame, a move, a hit, a respawn, a pause toggle, the
\* level-complete timer) leaves safeIslands as it is and adds nothing to
\* collectibleTiles; it removes a cell from collectibleTiles only by ending
\* a hop on that cell.
C30_IslandsFixedCollectiblesShrink == [][C30_SetsStep]_vars

\* two hops up from the spawn cell the player has picked up the collectible
\* of the cell (6,12) while others are left, on a layout with islands
C30_PickedUpOneOfMany ==
    /\ GameState.isPlaying
    /\ hops = 2
    /\ ~GameState.isHopping
    /\ GameState.playerPosition = <<6, 12>>
    /\ <<6, 12>> \notin GameState.collectibleTiles
    /\ Cardinality(GameState.collectibleTiles) = POINTS_PER_LEVEL[GameState.currentLevel] - 1
    /\ GameState.safeIslands /= {}

\* C31: in every reachable state the player's position is a cell of the
\* grid, 0 <= x < 12 and 0 <= z < 16.
C31_PlayerStaysOnTheGrid ==
    /\ GameState.playerPosition[1] >= 0
    /\ GameState.playerPosition[1] < 12
    /\ GameState.playerPosition[2] >= 0
    /\ GameState.playerPosition[2] < 16

\* in a game that was started in this session the player stands on the
\* bottom row, one hop below the spawn cell, where a move down is refused
C31_OnBottomRowOfNewGame ==
    /\ GameState.isPlaying
    /\ GameState.currentLevel = 1
    /\ GameState.livesRemaining = START_LIVES
    /\ GameState.totalScore = 0
    /\ ~GameState.isHopping
    /\ GameState.playerPosition = <<6, HEIGHT - 1>>

\* livesRemaining at the end of the frame tick that is about to run its
\* playing block: updateLavaPatterns with its per-tick check, then
\* updateHopAnimation with the check that ends a completed hop
C32_LivesAfterTick(turn, side) ==
    LET w1 == updateLavaPatterns(World, now, turn, side)
        w2 == updateHopAnimation(w1, now)
        w3 == IF HopLands(w1.gs, now) THEN LandingCheck(w2, now) ELSE w2
    IN  w3.gs.livesRemaining

\* a step takes at most one life, and only in one of the two checks
C32_LivesStep ==
    GameState'.livesRemaining < GameState.livesRemaining =>
        /\ GameState'.livesRemaining = GameState.livesRemaining - 1
        /\ frame \in {"lava", "land"}
        /\ ~GameState.invincible

\* C32: livesRemaining is always in 0..3; a step that lowers it lowers it by
\* exactly one and is one of the two collision checks of a frame tick; and
\* the two checks of one tick together take at most one life.
C32_OneLifePerTick ==
    /\ [](GameState.livesRemaining \in 0..3)
    /\ [][C32_LivesStep]_vars
    /\ [](frame = "lava" =>
            \A turn, side \in BOOLEAN :
               C32_LivesAfterTick(turn, side) >= GameState.livesRemaining - 1)

\* the check that ends a hop has taken a life in the tick in which the hop
\* landed, after the per-tick check of that tick had run
C32_HitOnLanding ==
    /\ frame = "score"
    /\ hops > 0
    /\ now - GameState.hopStartTime = HOP_DURATION
    /\ GameState.invincible
    /\ GameState.invincibleUntil = now + INVINCIBLE_MS
    /\ GameState.livesRemaining \in 1..(START_LIVES - 1)
    /\ GameState.playerPosition = Spawn

\* C33: at most one start or countdown sequence is in progress: at most one
\* activation of startGame or nextLevel is suspended at an await.
C33_OneSequenceAtATime == Len(tasks) <= 1

\* C34: isGameOver and isPlaying are never both true, isCountingDown and
\* isPlaying are never both true, and isPaused is true only while isPlaying
\* is true.
C34_FlagsAreOneEnum ==
    /\ ~(GameState.isGameOver /\ GameState.isPlaying)
    /\ ~(GameState.isCountingDown /\ GameState.isPlaying)
    /\ (GameState.isPaused => GameState.isPlaying)

\* the level-complete screen or the win screen comes up in this step
C35_ScreenComesUp ==
    \/ screens'.levelComplete /\ ~screens.levelComplete
    \/ screens'.win /\ ~screens.win

C35_Step ==
    /\ (GameState.isGameOver /\ GameState'.isGameOver =>
          /\ ~C35_ScreenComesUp
          /\ GameState'.currentLevel = GameState.currentLevel
          /\ GameState'.livesRemaining = GameState.livesRemaining
          /\ GameState'.totalScore = GameState.totalScore)
    /\ (C35_ScreenComesUp => GameState.isPlaying /\ ~GameState.isGameOver)

\* C35: from game over until the restart no step brings up the
\* level-complete or the win screen or changes currentLevel, livesRemaining
\* or totalScore; and these two screens come up only from a level in play,
\* so a timer left over from before the game over brings up neither, also
\* not after the restart.
C35_GameOverIsFinal == [][C35_Step]_vars

\* C36: the level score is awarded at most once per level and each award is
\* between 1 and maxLevelScore: totalScore changes only by such an award or
\* by the reset of a new game, it never exceeds maxLevelScore for each level
\* reached so far, and so never exceeds 12 * 10 = 120, the largest score
\* the leaderboard service accepts.
C36_Step ==
    GameState'.totalScore /= GameState.totalScore =>
        \/ GameState'.totalScore = 0
        \/ GameState'.totalScore - GameState.totalScore \in 1..maxLevelScore

NextFirstGame ==
    \/ AnimateBegin
    \/ FrameLava
    \/ FrameHop
    \/ FrameLand
    \/ FrameScore
    \/ Move
    \/ LevelCompleteTimer
    \/ Resume
    \/ ClickStart
    \/ PressEnter
    \/ ClickTutorialOk
    \/ TapScreen

SpecFirstGame ==
    /\ Init
    /\ [][NextFirstGame]_vars
    /\ WF_vars(FrameLava \/ FrameHop \/ FrameLand \/ FrameScore)
    /\ WF_vars(Resume \/ LevelCompleteTimer)
    /\ WF_vars(TimePasses)

\* C37: every accepted startGame eventually reaches play: once the tutorial
\* popup is hidden again, in whichever way, the countdown runs, isPlaying
\* becomes true and the isStartingGame guard is released.
C37_StartReachesPlay ==
    (isStartingGame /\ ~screens.tutorial) ~> (GameState.isPlaying /\ ~isStartingGame)

\* ------------------------------------------------------------------------
\* The leaderboard server on a disk that may refuse a write (full, read-only,
\* permissions): fs.writeFileSync throws, writeData catches and returns false
PostOnDisk(req, d, written) ==
    /\ Cardinality(Posted) < MaxPosts
    /\ now + d <= ServerT0 + MaxServerMs
    /\ now' = now + d
    /\ \E r \in {postLeaderboard(data, req, now', written)} :
           /\ data' = r.file
           /\ response' = r.res
           /\ accepted' = accepted \cup r.stored
    /\ UNCHANGED game

PostScoreOnDisk == \E req \in Requests, d \in {0, 1}, written \in BOOLEAN : PostOnDisk(req, d, written)

NextServerDisk == PostScoreOnDisk \/ GetBoard

SpecServerDisk == InitServer /\ [][NextServerDisk]_vars

\* C38: POST /api/leaderboard answers {success: true, id, rank} only if the
\* new entry was persisted: the data file then holds the entry with that id
\* at that rank; a failed write is never answered with a success.
C38_SuccessMeansPersisted ==
    (response.success /\ response.rank > 0) =>
        /\ response.rank <= Len(data.entries)
        /\ data.entries[response.rank].id = response.id
====
